---- MODULE Spec2Model ----
(***************************************************************************)
(* file_compressor: the streaming compression / decompression engine of    *)
(* src/src/lib.rs and its CLI callers of src/src/main.rs.                  *)
(*                                                                         *)
(* A file name is a sequence of tokens, "." being the dot character and    *)
(* every other token a dot-free piece of text; a path is a sequence of     *)
(* names from the root.  File data is a sequence of numbers (symbols).     *)
(***************************************************************************)
EXTENDS Integers, Sequences, FiniteSets, TLC

\* ------------------------------------------------------------------ bounds

\* longest plain (uncompressed) file content of the initial filesystem
MaxLen == 2

\* ------------------------------------------------------- program constants

BUFFER_SIZE_SMALL == 262144
BUFFER_SIZE_LARGE == 1048576
LARGE_FILE_THRESHOLD == 10485760
AUTO_PARALLEL_THRESHOLD == 1048576
BUFFER_SIZE == BUFFER_SIZE_SMALL
\* the throttle of the decompression / verification progress estimate
PROGRESS_STEP == 1048576
\* the assumed compression ratio of the progress estimate
PROGRESS_RATIO == 3

\* the large buffer only above the threshold
optimal_buffer_size_above(file_size) ==
    IF file_size > LARGE_FILE_THRESHOLD THEN BUFFER_SIZE_LARGE ELSE BUFFER_SIZE_SMALL

optimal_buffer_size(file_size) ==
    IF file_size >= LARGE_FILE_THRESHOLD THEN BUFFER_SIZE_LARGE ELSE BUFFER_SIZE_SMALL

\* the decision with the explicit request needed as well
should_use_parallel_both(parallel, auto_parallel, file_size) ==
    parallel /\ (auto_parallel /\ file_size >= AUTO_PARALLEL_THRESHOLD)

should_use_parallel(parallel, auto_parallel, file_size) ==
    parallel \/ (auto_parallel /\ file_size >= AUTO_PARALLEL_THRESHOLD)

\* ----------------------------------------------------------- small helpers

Min(a, b) == IF a <= b THEN a ELSE b

Last(s) == s[Len(s)]

Front(s) == SubSeq(s, 1, Len(s) - 1)

RECURSIVE Rep(_, _)
Rep(n, x) == IF n <= 0 THEN <<>> ELSE <<x>> \o Rep(n - 1, x)

RECURSIVE SumSeq(_)
SumSeq(s) == IF s = <<>> THEN 0 ELSE Head(s) + SumSeq(Tail(s))

\* ------------------------------------------------- std::path on file names

DOT == "."

\* index of the last dot of a name, 0 when it has none (rsplitn(2, '.'))
LastDot(n) ==
    LET dots == {i \in 1..Len(n) : n[i] = DOT}
    IN  IF dots = {} THEN 0 ELSE CHOOSE i \in dots : \A j \in dots : j <= i

\* Path::extension is Some(..): the name is not "..", has a dot, and the
\* text before its last dot is not empty
HasExtension(n) == n # <<DOT, DOT>> /\ LastDot(n) > 1

\* Path::extension (the empty sequence when None; see HasExtension)
Extension(n) == IF HasExtension(n) THEN SubSeq(n, LastDot(n) + 1, Len(n)) ELSE <<>>

\* Path::file_stem
FileStem(n) == IF HasExtension(n) THEN SubSeq(n, 1, LastDot(n) - 1) ELSE n

\* Path::with_extension on the last component
NameWithExtension(n, ext) == FileStem(n) \o (IF ext = <<>> THEN <<>> ELSE <<DOT>> \o ext)

FileName(p) == Last(p)

Parent(p) == Front(p)

Join(p, n) == Append(p, n)

WithExtension(p, ext) == Join(Parent(p), NameWithExtension(FileName(p), ext))

\* input_path.extension().and_then(OsStr::to_str).unwrap_or("") != "zst"
ExtensionIsZst(p) == HasExtension(FileName(p)) /\ Extension(FileName(p)) = <<"zst">>

\* input_path.to_string_lossy().ends_with(".tar.zst")
EndsWithTarZst(p) ==
    LET n == FileName(p)
    IN  Len(n) >= 4 /\ SubSeq(n, Len(n) - 3, Len(n)) = <<DOT, "tar", DOT, "zst">>

\* the extension replaced by zst, whatever the name
build_output_path_replacing(p) == WithExtension(p, <<"zst">>)

build_output_path(p) ==
    LET n == FileName(p)
    IN  IF HasExtension(n)
        THEN WithExtension(p, Extension(n) \o <<DOT, "zst">>)
        ELSE WithExtension(p, <<"zst">>)

\* ----------------------------------------------------- the codec (zstd)

\* first symbol of every frame
MAGIC == 40
\* longest run one block of a frame holds
MaxCount == 8
\* levels up to this one store every symbol as its own block
FAST_LEVEL == 2

\* the maximal runs of data, each cut at MaxCount, as <<count, symbol>> pairs
RECURSIVE Runs(_)
Runs(data) ==
    IF data = <<>> THEN <<>>
    ELSE LET x == Head(data)
             same == {k \in 1..Len(data) : \A j \in 1..k : data[j] = x}
             k == Min(MaxCount, Cardinality(same))
         IN  <<k, x>> \o Runs(SubSeq(data, k + 1, Len(data)))

RECURSIVE Units(_)
Units(data) == IF data = <<>> THEN <<>> ELSE <<1, Head(data)>> \o Units(Tail(data))

\* zstd::Encoder::new(writer, level) .. write_all .. finish(): one frame
\* (level 0 is the codec's default level)
Encode(data, level) ==
    LET body == IF level # 0 /\ level <= FAST_LEVEL THEN Units(data) ELSE Runs(data)
    IN  <<MAGIC, Len(body) \div 2>> \o body

RECURSIVE ReadBlocks(_, _, _, _)
ReadBlocks(s, i, k, out) ==
    IF k = 0 THEN [out |-> out, next |-> i, err |-> "none"]
    ELSE IF i + 1 > Len(s) THEN [out |-> out, next |-> i, err |-> "UnexpectedEof"]
    ELSE IF s[i] < 1 \/ s[i] > MaxCount THEN [out |-> out, next |-> i, err |-> "Other"]
    ELSE ReadBlocks(s, i + 2, k - 1, out \o Rep(s[i], s[i + 1]))

RECURSIVE ReadFrames(_, _, _)
ReadFrames(s, i, out) ==
    IF i > Len(s)
    THEN [out |-> out, next |-> i, err |-> IF i = 1 THEN "UnexpectedEof" ELSE "none"]
    ELSE IF s[i] # MAGIC THEN [out |-> out, next |-> i, err |-> "Other"]
    ELSE IF i + 1 > Len(s) THEN [out |-> out, next |-> i, err |-> "UnexpectedEof"]
    ELSE LET r == ReadBlocks(s, i + 2, s[i + 1], out)
         IN  IF r.err # "none" THEN r ELSE ReadFrames(s, r.next, r.out)

\* zstd::Decoder over a whole stream: the bytes it yields before it ends, and
\* the kind of the io::Error it ends with ("none": a clean end of stream).
\* An incomplete frame is UnexpectedEof, every other codec error is Other.
Decode(s) == ReadFrames(s, 1, <<>>)

\* ------------------------------------------------------- the archive (tar)

\* a zero block: the end of an archive
TAR_END == 99
\* a header block is TAR_HEADER + TAR_SLOT * (index of the entry's name) + size
TAR_HEADER == 100
TAR_SLOT == 100

N_A == <<"a">>
N_A_TXT == <<"a", DOT, "txt">>
N_A_TAR == <<"a", DOT, "tar">>
N_B_TXT == <<"b", DOT, "txt">>
N_D == <<"d">>
N_O == <<"o">>
N_N == <<"n">>
N_SUB == <<"sub">>
N_T_TAR_ZST == <<"t", DOT, "tar", DOT, "zst">>
N_OUT == <<"out", DOT, "zst">>
\* the component ".." and, as first component, the root of an absolute path
N_UP == <<DOT, DOT>>
N_ROOT == <<"/">>
\* the archive name of a directory whose path has no final name: "archivio"
N_ARCHIVIO == <<"archivio">>
\* a hidden file: a leading dot starts no extension
N_DOT_A == <<DOT, "a">>

\* the entry names an archive header can carry (relative paths)
TarNames ==
    << <<N_A_TXT>>, <<N_SUB, N_B_TXT>>, <<N_A>>, <<N_A_TAR>>, <<N_T_TAR_ZST>>,
       <<N_B_TXT>>, <<N_OUT>>, <<N_A_TXT \o <<DOT, "zst">>>>, <<N_A \o <<DOT, "zst">>>>,
       <<N_A_TAR \o <<DOT, "zst">>>>, <<N_UP, N_N>>, <<N_ROOT, N_N>>,
       <<N_ARCHIVIO \o <<DOT, "tar", DOT, "zst">>>>, <<N_SUB, N_SUB, N_B_TXT>> >>

TarNamed(rel) == \E i \in 1..Len(TarNames) : TarNames[i] = rel

TarNameIndex(rel) == CHOOSE i \in 1..Len(TarNames) : TarNames[i] = rel

\* Builder::append_path_with_name: a header block, then the file's data
TarAppend(rel, data) == <<TAR_HEADER + TAR_SLOT * TarNameIndex(rel) + Len(data)>> \o data

RECURSIVE TarAppendAll(_)
TarAppendAll(entries) ==
    IF entries = <<>> THEN <<>>
    ELSE TarAppend(Head(entries).path, Head(entries).data) \o TarAppendAll(Tail(entries))

\* Builder::into_inner: the end-of-archive blocks
TarFinish == <<TAR_END, TAR_END>>

\* Archive::entries over the decoder's stream s, which ends with error derr:
\* the entries read (a last one possibly cut short) and the error that ended
\* the iteration ("none": a clean end)
RECURSIVE TarEntries(_, _, _, _)
TarEntries(s, derr, i, acc) ==
    IF i > Len(s) THEN [entries |-> acc, err |-> derr]
    ELSE IF s[i] = TAR_END THEN [entries |-> acc, err |-> "none"]
    ELSE IF s[i] < TAR_HEADER
              \/ (s[i] - TAR_HEADER) \div TAR_SLOT \notin 1..Len(TarNames)
         THEN [entries |-> acc, err |-> "Other"]
    ELSE LET idx == (s[i] - TAR_HEADER) \div TAR_SLOT
             size == (s[i] - TAR_HEADER) % TAR_SLOT
             have == Min(size, Len(s) - i)
             cut == IF have = size THEN "none"
                    ELSE IF derr = "none" THEN "UnexpectedEof" ELSE derr
             e == [path |-> TarNames[idx], data |-> SubSeq(s, i + 1, i + have),
                   size |-> size, cut |-> cut]
         IN  IF have < size
             THEN [entries |-> Append(acc, e), err |-> cut]
             ELSE TarEntries(s, derr, i + 1 + size, Append(acc, e))

\* ------------------------------------------------------- the filesystem

Root == <<>>

DirNode == [kind |-> "dir", data |-> <<>>]

FileNode(data) == [kind |-> "file", data |-> data]

exists(f, p) == p \in DOMAIN f

is_dir(f, p) == p \in DOMAIN f /\ f[p].kind = "dir"

is_file(f, p) == p \in DOMAIN f /\ f[p].kind = "file"

\* std::fs::metadata(p)?.len() of an existing path
metadata_len(f, p) == Len(f[p].data)

Put(f, p, node) == [q \in DOMAIN f \cup {p} |-> IF q = p THEN node ELSE f[q]]

Remove(f, p) == [q \in DOMAIN f \ {p} |-> f[q]]

Prefixes(p) == {SubSeq(p, 1, k) : k \in 0..Len(p)}

\* std::fs::create_dir_all
create_dir_all(f, p) ==
    IF \E q \in Prefixes(p) : is_file(f, q)
    THEN [fs |-> f, err |-> IF is_file(f, p) THEN "AlreadyExists" ELSE "NotADirectory"]
    ELSE [fs |-> [q \in DOMAIN f \cup Prefixes(p) |-> IF q \in DOMAIN f THEN f[q] ELSE DirNode],
          err |-> "none"]

\* File::create: creates the file, or truncates an existing one
file_create(f, p) ==
    IF p = Root \/ is_dir(f, p) THEN [fs |-> f, err |-> "IsADirectory"]
    ELSE IF ~exists(f, Parent(p)) THEN [fs |-> f, err |-> "NotFound"]
    ELSE IF ~is_dir(f, Parent(p)) THEN [fs |-> f, err |-> "NotADirectory"]
    ELSE [fs |-> Put(f, p, FileNode(<<>>)), err |-> "none"]

\* the regular files under directory dir, as paths
FilesUnder(f, dir) ==
    {p \in DOMAIN f : is_file(f, p) /\ Len(p) > Len(dir) /\ SubSeq(p, 1, Len(dir)) = dir}

\* -------------------------------------------------------- engine results

NoPath == [some |-> FALSE, path |-> Root]

SomePath(p) == [some |-> TRUE, path |-> p]

Res(f, kind, insz, outsz, log, io, route) ==
    [fs |-> f, kind |-> kind, input_size |-> insz, output_size |-> outsz,
     log |-> log, io |-> io, route |-> route]

\* the cumulative byte counts after each read of a source of n bytes through a
\* buffer of bs bytes (BufReader over a regular file fills the buffer)
\* the count reported before the chunk just read is added
RECURSIVE CumulativeReadsBefore(_, _, _)
CumulativeReadsBefore(n, bs, done) ==
    IF done >= n THEN <<>>
    ELSE <<done>> \o CumulativeReadsBefore(n, bs, Min(n, done + bs))

RECURSIVE CumulativeReads(_, _, _)
CumulativeReads(n, bs, done) ==
    IF done >= n THEN <<>>
    ELSE <<Min(n, done + bs)>> \o CumulativeReads(n, bs, Min(n, done + bs))

\* the sizes of the reads of n bytes through a buffer of bs bytes
RECURSIVE ReadSizes(_, _)
ReadSizes(n, bs) == IF n <= 0 THEN <<>> ELSE <<Min(n, bs)>> \o ReadSizes(n - Min(n, bs), bs)

\* ------------------------------------------------------------ compress_file

\* the estimate without its cap at the input size
EstimatedProgressUncapped(total, input_size) == total \div PROGRESS_RATIO

\* the progress estimate of decompress_single_file and verify_zst:
\* (total as f64 / 3.0).min(input_size as f64) as u64
EstimatedProgress(total, input_size) == Min(total \div PROGRESS_RATIO, input_size)

\* the throttle comparing the total instead of the bytes since the last update
ProgressDueOnTotal(total, last) == total >= PROGRESS_STEP

\* the throttle: total_written - last_progress_update >= 1024 * 1024
ProgressDue(total, last) == total - last >= PROGRESS_STEP

\* the values the read loop of decompress_single_file / verify_zst passes to
\* the progress sink, for decoder reads of the given sizes
RECURSIVE ThrottledProgress(_, _, _, _)
ThrottledProgress(reads, total, last, input_size) ==
    IF reads = <<>> THEN <<>>
    ELSE LET t == total + Head(reads)
         IN  IF ProgressDue(t, last)
             THEN <<EstimatedProgress(t, input_size)>>
                      \o ThrottledProgress(Tail(reads), t, t, input_size)
             ELSE ThrottledProgress(Tail(reads), t, last, input_size)

\* the completion callback passing the bytes written instead of the input size
SingleFileProgressWritten(reads, input_size, err) ==
    ThrottledProgress(reads, 0, 0, input_size)
        \o (IF err = "none" THEN <<SumSeq(reads)>> ELSE <<>>)

\* everything the read loop of decompress_single_file passes to the sink: the
\* throttled estimates, then on success the completion callback(input_size)
SingleFileProgress(reads, input_size, err) ==
    ThrottledProgress(reads, 0, 0, input_size)
        \o (IF err = "none" THEN <<input_size>> ELSE <<>>)

\* the same for the read loop of verify_zst
VerifyProgress(reads, input_size, err) ==
    ThrottledProgress(reads, 0, 0, input_size)
        \o (IF err = "none" THEN <<input_size>> ELSE <<>>)

\* Some(p) => if p.is_dir() { p.join(name) } else { p.clone() }, None => dflt
ResolveOutput(f, out, name, dflt) ==
    IF out.some THEN (IF is_dir(f, out.path) THEN Join(out.path, name) ELSE out.path)
    ELSE dflt

\* the guard with the force flag inverted
OutputGuardInverted(f, output, force) == exists(f, output) /\ force

\* output_path.exists() && !options.force
OutputGuard(f, output, force) == exists(f, output) /\ ~force

\* if let Some(parent) = output_path.parent() { if !parent.exists() { create_dir_all } }
CreateParents(f, output) ==
    IF output = Root \/ exists(f, Parent(output)) THEN [fs |-> f, err |-> "none"]
    ELSE create_dir_all(f, Parent(output))

compress_file(f, input, level, force, out) ==
    IF ~exists(f, input) THEN Res(f, "NotFound", 0, 0, <<>>, 1, "none")
    ELSE
    LET output == ResolveOutput(f, out, FileName(input) \o <<DOT, "zst">>,
                                build_output_path(input))
        io1 == IF out.some THEN 3 ELSE 2
    IN  IF OutputGuard(f, output, force) THEN Res(f, "AlreadyExists", 0, 0, <<>>, io1, "none")
        ELSE
        LET par == CreateParents(f, output)
        IN  IF par.err # "none" THEN Res(par.fs, par.err, 0, 0, <<>>, io1 + 2, "none")
            ELSE
            LET input_size == metadata_len(par.fs, input)
                buffer_size == optimal_buffer_size(input_size)
                cr == file_create(par.fs, output)
            IN  IF cr.err # "none" THEN Res(cr.fs, cr.err, 0, 0, <<>>, io1 + 5, "none")
                ELSE
                \* the source is read after the destination was created
                LET data == cr.fs[input].data
                    written == Encode(data, level)
                    f2 == Put(cr.fs, output, FileNode(written))
                IN  Res(f2, "Ok", input_size, Len(f2[output].data),
                        CumulativeReads(Len(data), buffer_size, 0), io1 + 6, "none")

\* ---------------------------------------------------- decompress_single_file

decompress_single_file(f, input, force, out, init_ok) ==
    LET default_output == WithExtension(input, <<>>)
        output == ResolveOutput(f, out, FileName(default_output), default_output)
        io1 == IF out.some THEN 2 ELSE 1
    IN  IF OutputGuard(f, output, force)
        THEN Res(f, "AlreadyExists", 0, 0, <<>>, io1, "single")
        ELSE
        LET par == CreateParents(f, output)
        IN  IF par.err # "none" THEN Res(par.fs, par.err, 0, 0, <<>>, io1 + 2, "single")
            ELSE IF ~exists(par.fs, input)
            THEN Res(par.fs, "NotFound", 0, 0, <<>>, io1 + 3, "single")
            ELSE
            LET input_size == metadata_len(par.fs, input)
                buffer_size == optimal_buffer_size(input_size)
                cr == file_create(par.fs, output)
            IN  IF cr.err # "none" THEN Res(cr.fs, cr.err, 0, 0, <<>>, io1 + 5, "single")
                ELSE IF ~init_ok THEN Res(cr.fs, "Other", 0, 0, <<>>, io1 + 5, "single")
                ELSE
                LET dec == Decode(cr.fs[input].data)
                    f2 == Put(cr.fs, output, FileNode(dec.out))
                    log == SingleFileProgress(ReadSizes(Len(dec.out), buffer_size),
                                              input_size, dec.err)
                IN  IF dec.err # "none"
                    THEN Res(f2, dec.err, 0, 0, log, io1 + 6, "single")
                    ELSE Res(f2, "Ok", input_size, Len(f2[output].data), log,
                             io1 + 7, "single")

\* -------------------------------------------------------- decompress_tar_zst

\* Path::join: an absolute second path replaces the first
PathJoin(base, rel) ==
    IF rel # <<>> /\ Head(rel) = N_ROOT THEN Tail(rel) ELSE base \o rel

\* the file a path names once the system has followed its ".." components
RECURSIVE Resolved(_, _)
Resolved(p, acc) ==
    IF p = <<>> THEN acc
    ELSE IF Head(p) = N_UP
    THEN Resolved(Tail(p), IF acc = <<>> THEN acc ELSE Front(acc))
    ELSE Resolved(Tail(p), Append(acc, Head(p)))

\* the loop over archive.entries(): state after the entries, the count of
\* files extracted, their total size and the error that ended the loop
RECURSIVE ExtractEntries(_, _, _, _, _)
ExtractEntries(f, output_dir, entries, count, total) ==
    IF entries = <<>> THEN [fs |-> f, count |-> count, total |-> total, err |-> "none"]
    ELSE LET e == Head(entries)
             dest == Resolved(PathJoin(output_dir, e.path), <<>>)
             par == create_dir_all(f, Parent(dest))
         IN  IF par.err # "none"
             THEN [fs |-> par.fs, count |-> count, total |-> total, err |-> par.err]
             ELSE LET cr == file_create(par.fs, dest)
                  IN  IF cr.err # "none"
                      THEN [fs |-> cr.fs, count |-> count, total |-> total, err |-> cr.err]
                      ELSE IF e.cut # "none"
                      THEN [fs |-> Put(cr.fs, dest, FileNode(e.data)), count |-> count,
                            total |-> total, err |-> e.cut]
                      ELSE ExtractEntries(Put(cr.fs, dest, FileNode(e.data)), output_dir,
                                          Tail(entries), count + 1, total + e.size)

\* callback(file_count) after each entry
CountLog(n) == [i \in 1..n |-> i]

\* an extraction that joins a directory given as output_path with the
\* archive's base name, as single-file decompression does
decompress_tar_zst_joined(f, input, force, out, init_ok) ==
    LET file_stem == FileStem(FileStem(FileName(input)))
        output_dir == IF ~out.some THEN Join(Parent(input), file_stem)
                      ELSE IF is_dir(f, out.path) THEN Join(out.path, file_stem)
                      ELSE out.path
        io1 == IF out.some THEN 3 ELSE 1
    IN  IF out.some /\ exists(f, out.path) /\ ~is_dir(f, out.path)
        THEN Res(f, "InvalidInput", 0, 0, <<>>, 2, "tar")
        ELSE IF OutputGuard(f, output_dir, force)
        THEN Res(f, "AlreadyExists", 0, 0, <<>>, io1, "tar")
        ELSE
        LET mk == create_dir_all(f, output_dir)
        IN  IF mk.err # "none" THEN Res(mk.fs, mk.err, 0, 0, <<>>, io1 + 1, "tar")
            ELSE IF ~exists(mk.fs, input)
            THEN Res(mk.fs, "NotFound", 0, 0, <<>>, io1 + 2, "tar")
            ELSE IF ~init_ok THEN Res(mk.fs, "Other", 0, 0, <<>>, io1 + 3, "tar")
            ELSE
            LET input_size == metadata_len(mk.fs, input)
                dec == Decode(mk.fs[input].data)
                ents == TarEntries(dec.out, dec.err, 1, <<>>)
                ex == ExtractEntries(mk.fs, output_dir, ents.entries, 0, 0)
                io2 == io1 + 3 + 2 * Len(ents.entries)
            IN  IF ex.err # "none"
                THEN Res(ex.fs, ex.err, 0, 0, CountLog(ex.count), io2, "tar")
                ELSE IF ents.err # "none"
                THEN Res(ex.fs, ents.err, 0, 0, CountLog(ex.count), io2, "tar")
                ELSE Res(ex.fs, "Ok", input_size, ex.total, CountLog(ex.count), io2, "tar")

decompress_tar_zst(f, input, force, out, init_ok) ==
    LET file_stem == FileStem(FileStem(FileName(input)))
        output_dir == IF out.some THEN out.path ELSE Join(Parent(input), file_stem)
        io1 == IF out.some THEN 3 ELSE 1
    IN  IF out.some /\ exists(f, out.path) /\ ~is_dir(f, out.path)
        THEN Res(f, "InvalidInput", 0, 0, <<>>, 2, "tar")
        ELSE IF OutputGuard(f, output_dir, force)
        THEN Res(f, "AlreadyExists", 0, 0, <<>>, io1, "tar")
        ELSE
        LET mk == create_dir_all(f, output_dir)
        IN  IF mk.err # "none" THEN Res(mk.fs, mk.err, 0, 0, <<>>, io1 + 1, "tar")
            ELSE IF ~exists(mk.fs, input)
            THEN Res(mk.fs, "NotFound", 0, 0, <<>>, io1 + 2, "tar")
            ELSE IF ~init_ok THEN Res(mk.fs, "Other", 0, 0, <<>>, io1 + 3, "tar")
            ELSE
            LET input_size == metadata_len(mk.fs, input)
                dec == Decode(mk.fs[input].data)
                ents == TarEntries(dec.out, dec.err, 1, <<>>)
                ex == ExtractEntries(mk.fs, output_dir, ents.entries, 0, 0)
                io2 == io1 + 3 + 2 * Len(ents.entries)
            IN  IF ex.err # "none"
                THEN Res(ex.fs, ex.err, 0, 0, CountLog(ex.count), io2, "tar")
                ELSE IF ents.err # "none"
                THEN Res(ex.fs, ents.err, 0, 0, CountLog(ex.count), io2, "tar")
                ELSE Res(ex.fs, "Ok", input_size, ex.total, CountLog(ex.count), io2, "tar")

\* ------------------------------------------------------------ decompress_file

\* the dispatch without the extension check
decompress_file_unchecked(f, input, force, out, init_ok) ==
    IF ~exists(f, input) THEN Res(f, "NotFound", 0, 0, <<>>, 1, "none")
    ELSE LET r == IF EndsWithTarZst(input)
                  THEN decompress_tar_zst(f, input, force, out, init_ok)
                  ELSE decompress_single_file(f, input, force, out, init_ok)
         IN  [r EXCEPT !.io = @ + 1]

decompress_file(f, input, force, out, init_ok) ==
    IF ~exists(f, input) THEN Res(f, "NotFound", 0, 0, <<>>, 1, "none")
    ELSE IF ~ExtensionIsZst(input) THEN Res(f, "InvalidInput", 0, 0, <<>>, 1, "reject")
    ELSE LET r == IF EndsWithTarZst(input)
                  THEN decompress_tar_zst(f, input, force, out, init_ok)
                  ELSE decompress_single_file(f, input, force, out, init_ok)
         IN  [r EXCEPT !.io = @ + 1]

\* the CLI's decompress command (main.rs)
decompress_file_with_progress(f, input, force, out, init_ok) ==
    IF ~exists(f, input) THEN Res(f, "NotFound", 0, 0, <<>>, 1, "none")
    ELSE LET r == IF EndsWithTarZst(input)
                  THEN decompress_tar_zst(f, input, force, out, init_ok)
                  ELSE decompress_single_file(f, input, force, out, init_ok)
         IN  [r EXCEPT !.io = @ + (IF EndsWithTarZst(input) THEN 1 ELSE 2)]

\* ----------------------------------------------------------------- verify_zst

\* the decoder's error kind passed through, as `?` does
VerifyErrorKindPassed(kind) == kind

\* Err(e) => Err(io::Error::new(ErrorKind::InvalidData, ..)) of verify_zst
VerifyErrorKind(kind) == "InvalidData"

\* verification by writing the decoded stream to the default output
verify_zst_writing(f, input, init_ok) == decompress_single_file(f, input, TRUE, NoPath, init_ok)

verify_zst(f, input, init_ok) ==
    IF ~exists(f, input) THEN Res(f, "NotFound", 0, 0, <<>>, 1, "none")
    ELSE IF ~ExtensionIsZst(input) THEN Res(f, "InvalidInput", 0, 0, <<>>, 1, "reject")
    ELSE IF ~init_ok THEN Res(f, VerifyErrorKind("Other"), 0, 0, <<>>, 3, "verify")
    ELSE
    LET input_size == metadata_len(f, input)
        dec == Decode(f[input].data)
        log == VerifyProgress(ReadSizes(Len(dec.out), BUFFER_SIZE), input_size, dec.err)
    IN  IF dec.err # "none" THEN Res(f, VerifyErrorKind(dec.err), 0, 0, log, 3, "verify")
        ELSE Res(f, "Ok", input_size, Len(dec.out), log, 3, "verify")

\* --------------------------------------------------------- compress_directory

Children(f, dir) == {p \in DOMAIN f : Len(p) = Len(dir) + 1 /\ Parent(p) = dir}

\* the orders in which add_dir_to_tar_with_progress can meet the regular files
\* below the entries C of one directory: read_dir yields them in any order,
\* and a subdirectory is walked when it is met
RECURSIVE WalkOrders(_, _)
WalkOrders(f, C) ==
    IF C = {} THEN {<<>>}
    ELSE UNION {
        {h \o t : h \in (IF is_dir(f, c) THEN WalkOrders(f, Children(f, c)) ELSE {<<c>>}),
                  t \in WalkOrders(f, C \ {c})} : c \in C }

\* calculate_dir_size
calculate_dir_size(f, dir) ==
    LET files == FilesUnder(f, dir)
        RECURSIVE Sum(_)
        Sum(S) == IF S = {} THEN 0
                  ELSE LET p == CHOOSE q \in S : TRUE IN Len(f[p].data) + Sum(S \ {p})
    IN  Sum(files)

\* the archive entries appended for the files of walk, named relative to base
RECURSIVE WalkEntries(_, _, _)
WalkEntries(f, base, walk) ==
    IF walk = <<>> THEN <<>>
    ELSE <<[path |-> SubSeq(Head(walk), Len(base) + 1, Len(Head(walk))),
            data |-> f[Head(walk)].data]>> \o WalkEntries(f, base, Tail(walk))

\* each file's own size reported instead of the running total
RECURSIVE FileSizesReported(_, _)
FileSizesReported(sizes, acc) ==
    IF sizes = <<>> THEN <<>>
    ELSE <<Head(sizes)>> \o FileSizesReported(Tail(sizes), acc + Head(sizes))

\* ProgressTracker::add after each file: the running total of the sizes
RECURSIVE RunningTotals(_, _)
RunningTotals(sizes, acc) ==
    IF sizes = <<>> THEN <<>>
    ELSE <<acc + Head(sizes)>> \o RunningTotals(Tail(sizes), acc + Head(sizes))

EntrySizes(entries) == [i \in 1..Len(entries) |-> Len(entries[i].data)]

\* every result compress_directory can return (one per traversal order)
compress_directory(f, dir, level, force, out) ==
    IF ~exists(f, dir) THEN {Res(f, "NotFound", 0, 0, <<>>, 1, "none")}
    ELSE IF ~is_dir(f, dir) THEN {Res(f, "InvalidInput", 0, 0, <<>>, 2, "none")}
    ELSE
    LET dir_name == IF dir = Root THEN N_ARCHIVIO ELSE FileName(dir)
        name == dir_name \o <<DOT, "tar", DOT, "zst">>
        output == ResolveOutput(f, out, name, Join(Parent(dir), name))
        io1 == IF out.some THEN 4 ELSE 3
    IN  IF OutputGuard(f, output, force)
        THEN {Res(f, "AlreadyExists", 0, 0, <<>>, io1, "none")}
        ELSE
        LET par == CreateParents(f, output)
        IN  IF par.err # "none" THEN {Res(par.fs, par.err, 0, 0, <<>>, io1 + 2, "none")}
            ELSE
            LET total_size == calculate_dir_size(par.fs, dir)
                cr == file_create(par.fs, output)
            IN  IF cr.err # "none" THEN {Res(cr.fs, cr.err, 0, 0, <<>>, io1 + 4, "none")}
                ELSE
                { LET entries == WalkEntries(cr.fs, dir, walk)
                      archive == TarAppendAll(entries) \o TarFinish
                      f2 == Put(cr.fs, output, FileNode(Encode(archive, level)))
                  IN  Res(f2, "Ok", total_size, Len(f2[output].data),
                          RunningTotals(EntrySizes(entries), 0), io1 + 5, "none")
                  : walk \in WalkOrders(cr.fs, Children(cr.fs, dir)) }

\* ---------------------------------------------------- compress_multiple_files

RECURSIVE BareEntries(_, _)
BareEntries(f, files) ==
    IF files = <<>> THEN <<>>
    ELSE <<[path |-> <<FileName(Head(files))>>, data |-> f[Head(files)].data]>>
             \o BareEntries(f, Tail(files))

\* compress_multiple_files once every listed file is known to exist
ArchiveFiles(f, files, output, level, force) ==
    IF OutputGuard(f, output, force)
    THEN Res(f, "AlreadyExists", 0, 0, <<>>, Len(files) + 1, "none")
    ELSE
    LET cr == file_create(f, output)
    IN  IF cr.err # "none" THEN Res(cr.fs, cr.err, 0, 0, <<>>, 2 * Len(files) + 2, "none")
        ELSE
        LET entries == BareEntries(cr.fs, files)
            archive == TarAppendAll(entries) \o TarFinish
            f2 == Put(cr.fs, output, FileNode(Encode(archive, level)))
            sizes == EntrySizes(entries)
        IN  Res(f2, "Ok", SumSeq(sizes), Len(f2[output].data),
                RunningTotals(sizes, 0), 3 * Len(files) + 3, "none")

\* the existence of the files checked while they are appended, after the
\* output file has been created
compress_multiple_files_late_check(f, files, output, level, force) ==
    IF \E i \in 1..Len(files) : ~exists(f, files[i])
    THEN Res(IF OutputGuard(f, output, force) THEN f ELSE file_create(f, output).fs,
             "NotFound", 0, 0, <<>>, Len(files), "none")
    ELSE ArchiveFiles(f, files, output, level, force)

compress_multiple_files(f, files, output, level, force) ==
    IF \E i \in 1..Len(files) : ~exists(f, files[i])
    THEN Res(f, "NotFound", 0, 0, <<>>, Len(files), "none")
    ELSE ArchiveFiles(f, files, output, level, force)

\* ------------------------------------------------------------------ state

VARIABLES
    fs,      \* the filesystem: path -> node
    call,    \* the last engine call: its arguments, its result, what it passed
             \* to the progress sink (log), the filesystem accesses it made (io)
    pre,     \* history: the filesystem the last call started from
    app,         \* the GUI's CompressorApp: the fields the batch protocol uses
    cancel_flag, \* the AtomicU64 shared by the GUI thread and its worker
    chan,        \* the mpsc channel of the current batch: messages in flight
    worker,      \* the worker thread of the current batch: position and locals
    hist,        \* history: messages sent and received, where cancel was signalled
    cli          \* the CLI's batch_compress: its items and its two counters

vars == <<fs, call, pre, app, cancel_flag, chan, worker, hist, cli>>

batchVars == <<app, cancel_flag, chan, worker, hist, cli>>

\* impl Default for CompressorApp
AppDefault ==
    [selected_files |-> <<>>, operation |-> "Compress", force_overwrite |-> FALSE,
     compression_level |-> 3, is_processing |-> FALSE, has_receiver |-> FALSE,
     progress |-> <<0, 1>>, last_details |-> <<>>, runs |-> 0, output_directory |-> NoPath]

\* no worker thread yet
WorkerIdle ==
    [pc |-> "idle", files |-> <<>>, operation |-> "Compress", force |-> FALSE, level |-> 0,
     idx |-> 0, success_count |-> 0, error_count |-> 0, skipped_count |-> 0,
     details |-> <<>>, output_dir |-> NoPath]

HistInit ==
    [sent |-> <<>>, received |-> <<>>, cancelled |-> FALSE, stale |-> FALSE, overlap |-> FALSE, cancel_completed |-> 0,
     cancel_started |-> 0, written |-> <<>>]

\* batch_compress not called
CliIdle ==
    [pc |-> "idle", files |-> <<>>, parallel |-> FALSE, force |-> FALSE, item |-> <<>>,
     success_count |-> 0, error_count |-> 0, attempts |-> <<>>, ret |-> "none"]

\* no GUI batch and no CLI batch
BatchIdle ==
    /\ app = AppDefault
    /\ cancel_flag = 0
    /\ chan = <<>>
    /\ worker = WorkerIdle
    /\ hist = HistInit
    /\ cli = CliIdle

Bytes == {0, 1}

\* plain contents, up to renaming of the two byte values
Contents ==
    {c \in UNION {[1..n -> Bytes] : n \in 0..MaxLen} : c = <<>> \/ c[1] = 0}

SrcNames == {N_A_TXT, N_A, N_A_TAR, N_DOT_A}

Levels == {1, 21}

\* what the initial filesystem holds beside the source file: 0 no container,
\* 1 intact containers, 2 containers cut by their last byte, 3 a container
\* that is no frame and an archive container that holds no archive,
\* 4 a container of two frames, 5 an intact container and an archive whose
\* entry names leave the output directory
Variants == 0..5

\* the archive of directory d, as compress_directory writes it
DirArchive ==
    TarAppendAll(<< [path |-> <<N_A_TXT>>, data |-> <<1>>],
                    [path |-> <<N_SUB, N_B_TXT>>, data |-> <<0>>] >>) \o TarFinish

\* the data of the single-file container of the initial filesystem
ZData(c, v) ==
    CASE v = 1 -> Encode(c, 21)
      [] v = 2 -> Front(Encode(c, 21))
      [] v = 3 -> c
      [] v = 5 -> Encode(c, 21)
      [] OTHER -> Encode(c, 1) \o Encode(c, 21)

\* an archive with an entry named ../n and an entry named /n
EscapeArchive ==
    TarAppendAll(<< [path |-> <<N_A_TXT>>, data |-> <<1>>],
                    [path |-> <<N_UP, N_N>>, data |-> <<1>>],
                    [path |-> <<N_ROOT, N_N>>, data |-> <<0>>] >>) \o TarFinish

\* the data of the archive container t.tar.zst of the initial filesystem
TData(c, v) ==
    CASE v = 1 -> Encode(DirArchive, 21)
      [] v = 2 -> Front(Encode(DirArchive, 21))
      [] v = 3 -> Encode(c, 21)
      [] v = 5 -> Encode(EscapeArchive, 21)
      [] OTHER -> Encode(DirArchive, 1)

\* a source file (when present), its container at the default output path and
\* an archive container (variant v), directory d of two files, the empty
\* directory o
InitFs(name, c, present, v) ==
    LET src == IF present THEN (<<name>> :> FileNode(c)) ELSE <<>>
        cont == IF v = 0 THEN <<>>
                ELSE (build_output_path(<<name>>) :> FileNode(ZData(c, v)))
                         @@ (<<N_T_TAR_ZST>> :> FileNode(TData(c, v)))
        files == src @@ cont @@ (<<N_D, N_A_TXT>> :> FileNode(<<1>>))
                     @@ (<<N_D, N_SUB, N_B_TXT>> :> FileNode(<<0>>))
        dirs == {Root, <<N_D>>, <<N_D, N_SUB>>, <<N_O>>}
    IN  [p \in DOMAIN files \cup dirs |-> IF p \in dirs THEN DirNode ELSE files[p]]

NoCall ==
    [op |-> "none", input |-> Root, inputs |-> <<>>, level |-> 0, force |-> FALSE,
     out |-> NoPath, init_ok |-> TRUE, kind |-> "none", input_size |-> 0,
     output_size |-> 0, log |-> <<>>, io |-> 0, route |-> "none", data |-> <<>>,
     reads |-> <<>>]

MkCall(op, input, inputs, level, force, out, init_ok, r) ==
    [op |-> op, input |-> input, inputs |-> inputs, level |-> level, force |-> force,
     out |-> out, init_ok |-> init_ok, kind |-> r.kind, input_size |-> r.input_size,
     output_size |-> r.output_size, log |-> r.log, io |-> r.io, route |-> r.route,
     data |-> <<>>, reads |-> <<>>]

Init ==
    /\ \E name \in SrcNames, c \in Contents, present \in BOOLEAN, v \in Variants :
           fs = InitFs(name, c, present, v)
    /\ call = NoCall
    /\ pre = fs
    /\ BatchIdle

\* a path that names nothing
MissingPath == <<N_B_TXT>>

RootFiles(f) == {p \in DOMAIN f : Len(p) = 1 /\ is_file(f, p)}

\* the input paths of the calls: the files of the root directory and a
\* missing path
Inputs(f) == RootFiles(f) \cup {MissingPath}

\* the output_path options of a call on input
Outs(input) == {NoPath, SomePath(<<N_O>>), SomePath(input)}

Step(r, c) ==
    /\ fs' = r.fs
    /\ pre' = fs
    /\ call' = c
    /\ UNCHANGED batchVars

CompressFile ==
    /\ call.op = "none"
    /\ \E input \in Inputs(fs), level \in Levels, force \in BOOLEAN :
       \E out \in Outs(input) \cup {SomePath(<<N_N, N_OUT>>)} :
        LET r == compress_file(fs, input, level, force, out)
        IN  Step(r, MkCall("compress_file", input, <<>>, level, force, out, TRUE, r))

CompressDirectory ==
    /\ call.op = "none"
    /\ \E dir \in {<<N_D>>, MissingPath, <<N_T_TAR_ZST>>}, force \in BOOLEAN,
          out \in {NoPath, SomePath(<<N_O>>), SomePath(<<N_D, N_OUT>>),
                   SomePath(<<N_D, N_A_TXT>>)} :
        \E r \in compress_directory(fs, dir, 3, force, out) :
            Step(r, MkCall("compress_directory", dir, <<>>, 3, force, out, TRUE, r))

CompressMultipleFiles ==
    /\ call.op = "none"
    /\ \E first \in {p \in RootFiles(fs) : TarNamed(<<FileName(p)>>)}, force \in BOOLEAN :
        \E output \in {<<N_OUT>>, first},
           files \in {<<first>>, <<first, <<N_D, N_SUB, N_B_TXT>>>>, <<first, MissingPath>>,
                     <<MissingPath, first>>, <<MissingPath>>} :
            LET r == compress_multiple_files(fs, files, output, 3, force)
            IN  Step(r, MkCall("compress_multiple_files", output, files, 3, force,
                               SomePath(output), TRUE, r))

DecompressFile ==
    /\ call.op = "none"
    /\ \E input \in Inputs(fs), force \in BOOLEAN, init_ok \in BOOLEAN : \E out \in Outs(input) :
        LET r == decompress_file(fs, input, force, out, init_ok)
        IN  Step(r, MkCall("decompress_file", input, <<>>, 0, force, out, init_ok, r))

CliDecompress ==
    /\ call.op = "none"
    /\ \E input \in Inputs(fs), force \in BOOLEAN, init_ok \in BOOLEAN : \E out \in Outs(input) :
        LET r == decompress_file_with_progress(fs, input, force, out, init_ok)
        IN  Step(r, MkCall("cli_decompress", input, <<>>, 0, force, out, init_ok, r))

VerifyZst ==
    /\ call.op = "none"
    /\ \E input \in Inputs(fs), init_ok \in BOOLEAN :
        LET r == verify_zst(fs, input, init_ok)
        IN  Step(r, MkCall("verify_zst", input, <<>>, 0, FALSE, NoPath, init_ok, r))

\* compress_file_simple(input_path, level, force)
compress_file_simple(f, input, level, force) == compress_file(f, input, level, force, NoPath)

\* the levels a caller of the library can pass: any i32
RawLevels == {-5, 0, 1, 21, 22}

\* a call of the public compress_file_simple
CompressFileSimple ==
    /\ call.op = "none"
    /\ \E input \in Inputs(fs), level \in RawLevels, force \in BOOLEAN :
        LET r == compress_file_simple(fs, input, level, force)
        IN  Step(r, MkCall("compress_file_simple", input, <<>>, level, force, NoPath, TRUE, r))

\* longest --livello argument
MaxArg == 2

\* s.parse::<i32>(): an optional sign, then at least one digit
parse_i32(s) ==
    LET DigitChars == <<"0", "1", "2", "3", "4", "5", "6", "7", "8", "9">>
        IsDigit(ch) == \E i \in 1..Len(DigitChars) : DigitChars[i] = ch
        DigitValue(ch) == (CHOOSE i \in 1..Len(DigitChars) : DigitChars[i] = ch) - 1
        RECURSIVE DigitsValue(_, _)
        DigitsValue(d, acc) ==
            IF d = <<>> THEN acc ELSE DigitsValue(Tail(d), 10 * acc + DigitValue(Head(d)))
        signed == s # <<>> /\ Head(s) \in {"+", "-"}
        digits == IF signed THEN Tail(s) ELSE s
    IN  IF digits = <<>> \/ \E i \in 1..Len(digits) : ~IsDigit(digits[i])
        THEN [ok |-> FALSE, v |-> 0]
        ELSE [ok |-> TRUE,
              v |-> IF signed /\ Head(s) = "-" THEN 0 - DigitsValue(digits, 0)
                    ELSE DigitsValue(digits, 0)]

parse_level(s) ==
    LET p == parse_i32(s)
    IN  IF ~p.ok THEN [ok |-> FALSE, v |-> 0]
        ELSE IF p.v >= 1 /\ p.v <= 21 THEN [ok |-> TRUE, v |-> p.v]
        ELSE [ok |-> FALSE, v |-> p.v]

\* the --livello arguments of the command line
LevelArgs ==
    UNION {[1..n -> {"0", "1", "2", "9", "-", "+", "x"}] : n \in 0..MaxArg}

\* the command "compress FILE --livello ARG": clap rejects the argument that
\* parse_level refuses; otherwise compress_file_with_progress runs
CliCompress ==
    /\ call.op = "none"
    /\ \E input \in Inputs(fs), arg \in LevelArgs, force \in BOOLEAN :
        LET lv == parse_level(arg)
            r == IF lv.ok THEN compress_file(fs, input, lv.v, force, NoPath)
                 ELSE Res(fs, "Usage", 0, 0, <<>>, 0, "none")
        IN  Step(r, MkCall(IF lv.ok THEN "cli_compress" ELSE "cli_rejected",
                           input, <<>>, lv.v, force, NoPath, TRUE, r))

\* test_compress_decompress_roundtrip, for any source file and level:
\* compress_file_simple(input, level, true), fs::remove_file(input), then
\* decompress_file_simple(compressed_path, true).
\* call.data keeps the source's content, call.kind the first error met.
RoundTrip ==
    /\ call.op = "none"
    /\ \E input \in RootFiles(fs), level \in Levels :
        LET original == fs[input].data
            r1 == compress_file(fs, input, level, TRUE, NoPath)
            compressed_path == build_output_path(input)
            r2 == decompress_file(Remove(r1.fs, input), compressed_path, TRUE, NoPath, TRUE)
            r == IF r1.kind # "Ok" THEN r1 ELSE r2
        IN  Step(r, [MkCall("roundtrip", input, <<>>, level, TRUE, NoPath, TRUE, r)
                         EXCEPT !.data = original])

Next ==
    \/ CompressFile
    \/ CompressDirectory
    \/ CompressMultipleFiles
    \/ DecompressFile
    \/ CliDecompress
    \/ VerifyZst
    \/ RoundTrip
    \/ CompressFileSimple
    \/ CliCompress

Spec == Init /\ [][Next]_vars

\* ------------------------------------------------- directory round trips

\* the regular files a tree can hold, relative to its directory
TreePaths == {<<N_A_TXT>>, <<N_B_TXT>>, <<N_SUB, N_B_TXT>>, <<N_SUB, N_SUB, N_B_TXT>>}

TreeContents == {<<0>>, <<1, 1>>}

\* the directory of the tree: d, or the working directory itself (".")
TreeBases == {<<N_D>>, Root}

\* a filesystem that holds the tree t (relative path -> content) at directory
\* base, with the (possibly empty) subdirectory sub
TreeFs(base, t) ==
    LET files == {base \o rel : rel \in DOMAIN t}
        dirs == UNION {Prefixes(Parent(p)) : p \in files} \cup Prefixes(base \o <<N_SUB>>)
    IN  [p \in files \cup dirs |->
            IF p \in dirs THEN DirNode
            ELSE FileNode(t[SubSeq(p, Len(base) + 1, Len(p))])]

InitTree ==
    /\ \E base \in TreeBases, S \in SUBSET TreePaths : \E t \in [S -> TreeContents] :
           fs = TreeFs(base, t)
    /\ call = NoCall
    /\ pre = fs
    /\ BatchIdle

\* the regular files under dir, as (relative path, content) pairs
RelativeFiles(f, dir) ==
    {<<SubSeq(p, Len(dir) + 1, Len(p)), f[p].data>> : p \in FilesUnder(f, dir)}

\* test_decompress_tar_zst, for any tree: compress_directory(dir) with default
\* options, then decompress_file on the archive into the fresh directory o
DirRoundTrip ==
    /\ call.op = "none"
    /\ \E dir \in {b \in TreeBases : b = Root <=> ~exists(fs, <<N_D>>)}, level \in Levels :
        \E r1 \in compress_directory(fs, dir, level, FALSE, NoPath) :
            LET dir_name == IF dir = Root THEN N_ARCHIVIO ELSE FileName(dir)
                archive_path == Join(Parent(dir), dir_name \o <<DOT, "tar", DOT, "zst">>)
                r2 == decompress_file(r1.fs, archive_path, FALSE, SomePath(<<N_O>>), TRUE)
                r == IF r1.kind # "Ok" THEN r1 ELSE r2
            IN  Step(r, MkCall("dir_roundtrip", dir, <<>>, level, FALSE,
                               SomePath(<<N_O>>), TRUE, r))

SpecTree == InitTree /\ [][DirRoundTrip]_vars

\* ------------------------------------------------- the size policies

\* CompressOptions::new
CompressOptions_new(level) ==
    [level |-> level, force |-> FALSE, parallel |-> FALSE, auto_parallel |-> TRUE]

with_parallel(o, parallel) == [o EXCEPT !.parallel = parallel]

with_auto_parallel(o, auto_parallel) == [o EXCEPT !.auto_parallel = auto_parallel]

\* how far around each threshold the sizes are sampled
MaxDelta == 2

\* file sizes: around 0, the small buffer size, both thresholds and twice the
\* large-file threshold, and the largest 31-bit size
PolicySizes ==
    {n \in {t + d : t \in {0, BUFFER_SIZE_SMALL, AUTO_PARALLEL_THRESHOLD,
                           LARGE_FILE_THRESHOLD, 2 * LARGE_FILE_THRESHOLD},
                   d \in (0 - MaxDelta)..MaxDelta} : n >= 0} \cup {2147483647}

\* which builder calls follow CompressOptions::new: none, or with the value
BuilderCalls ==
    [parallel : {"unset", "true", "false"}, auto_parallel : {"unset", "true", "false"}]

BuildOptions(b) ==
    LET o0 == CompressOptions_new(3)
        o1 == IF b.parallel = "unset" THEN o0 ELSE with_parallel(o0, b.parallel = "true")
    IN  IF b.auto_parallel = "unset" THEN o1
        ELSE with_auto_parallel(o1, b.auto_parallel = "true")

InitPolicy ==
    /\ fs = (Root :> DirNode)
    /\ pre = fs
    /\ \E size \in PolicySizes, b \in BuilderCalls :
           call = [op |-> "none", file_size |-> size, builder |-> b,
                   options |-> BuildOptions(b), buffer_size |-> 0, use_parallel |-> FALSE]
    /\ BatchIdle

\* optimal_buffer_size(file_size)
OptimalBufferSize ==
    /\ call.op = "none"
    /\ call' = [call EXCEPT !.op = "optimal_buffer_size",
                            !.buffer_size = optimal_buffer_size(call.file_size)]
    /\ UNCHANGED <<fs, pre>>
    /\ UNCHANGED batchVars

\* options.should_use_parallel(file_size)
ShouldUseParallel ==
    /\ call.op = "none"
    /\ call' = [call EXCEPT !.op = "should_use_parallel",
                            !.use_parallel = should_use_parallel(call.options.parallel,
                                                                 call.options.auto_parallel,
                                                                 call.file_size)]
    /\ UNCHANGED <<fs, pre>>
    /\ UNCHANGED batchVars

NextPolicy ==
    \/ OptimalBufferSize
    \/ ShouldUseParallel

SpecPolicy == InitPolicy /\ [][NextPolicy]_vars

\* ------------------------------------------------- the loops at full size

\* longest sequence of decoder reads, archive members or entries of one call
MaxReads == 8

\* compressed input sizes: far below, at and above a third of the throttle
\* step, and a large file
StreamSizes == {100000, 349525, 349526, 699051, LARGE_FILE_THRESHOLD}

\* what one decoder.read(&mut buffer) can return through a buffer of bs bytes
ReadSamples(bs) == {1, bs \div 2, bs}

ReadSeqs(bs) == UNION {[1..n -> ReadSamples(bs)] : n \in 0..MaxReads}

\* source sizes of compress_file
FileSizes ==
    {0, 1, BUFFER_SIZE_SMALL, BUFFER_SIZE_SMALL + 1, 3 * BUFFER_SIZE_SMALL,
     LARGE_FILE_THRESHOLD - 1, LARGE_FILE_THRESHOLD, LARGE_FILE_THRESHOLD + 1}

\* sizes of the members of an archive
MemberSizes == {0, 1, AUTO_PARALLEL_THRESHOLD}

MemberSeqs == UNION {[1..n -> MemberSizes] : n \in 0..3}

Loop(op, kind, input_size, output_size, reads, log) ==
    /\ call' = [NoCall EXCEPT !.op = op, !.kind = kind, !.input_size = input_size,
                              !.output_size = output_size, !.reads = reads, !.log = log]
    /\ UNCHANGED <<fs, pre>>
    /\ UNCHANGED batchVars

\* the read loop of decompress_single_file on a stream the decoder reads in
\* the given pieces, ending cleanly or with a decode error
LoopDecompressSingle ==
    /\ call.op = "none"
    /\ \E input_size \in StreamSizes, err \in {"none", "Other"} :
           \E reads \in ReadSeqs(optimal_buffer_size(input_size)) :
               Loop("decompress_single_file", IF err = "none" THEN "Ok" ELSE err, input_size,
                    SumSeq(reads), reads, SingleFileProgress(reads, input_size, err))

\* the read loop of verify_zst
LoopVerify ==
    /\ call.op = "none"
    /\ \E input_size \in StreamSizes, err \in {"none", "Other"} :
           \E reads \in ReadSeqs(BUFFER_SIZE) :
               Loop("verify_zst", IF err = "none" THEN "Ok" ELSE VerifyErrorKind(err),
                    input_size, SumSeq(reads), reads, VerifyProgress(reads, input_size, err))

\* the read loop of compress_file on a source of n bytes
LoopCompressFile ==
    /\ call.op = "none"
    /\ \E n \in FileSizes :
           Loop("compress_file", "Ok", n, 0, ReadSizes(n, optimal_buffer_size(n)),
                CumulativeReads(n, optimal_buffer_size(n), 0))

\* the member loop of compress_directory and of compress_multiple_files
LoopArchive ==
    /\ call.op = "none"
    /\ \E sizes \in MemberSeqs, op \in {"compress_directory", "compress_multiple_files"} :
           Loop(op, "Ok", SumSeq(sizes), 0, sizes, RunningTotals(sizes, 0))

\* the entry loop of decompress_tar_zst on an archive of n entries
LoopExtract ==
    /\ call.op = "none"
    /\ \E n \in 0..MaxReads, input_size \in StreamSizes :
           Loop("decompress_tar_zst", "Ok", input_size, n, Rep(n, 1), CountLog(n))

NextLoop ==
    \/ LoopDecompressSingle
    \/ LoopVerify
    \/ LoopCompressFile
    \/ LoopArchive
    \/ LoopExtract

\* the loops touch no file: one filesystem is enough
InitLoop ==
    /\ fs = InitFs(N_A_TXT, <<>>, TRUE, 0)
    /\ call = NoCall
    /\ pre = fs
    /\ BatchIdle

SpecLoop == InitLoop /\ [][NextLoop]_vars

\* ------------------------------------------------------- the GUI batches

\* most files of one batch
MaxBatch == 2

\* most batches of one session
MaxRuns == 2

\* what the user can select: a file, its container, a missing path, a
\* directory, an archive container
BatchPaths ==
    {<<N_A_TXT>>, build_output_path(<<N_A_TXT>>), MissingPath, <<N_D>>, <<N_T_TAR_ZST>>}

BatchLists == UNION {[1..n -> BatchPaths] : n \in 1..MaxBatch}

Operations == {"Compress", "Decompress", "Verify"}

\* the outcomes of one item of compress_files, decompress_files, verify_files:
\* the filesystem it leaves and how the loop tallies it
ItemOutcomes(f, operation, file, level, force, output_dir) ==
    LET Tally(R) == {[fs |-> r.fs, tag |-> IF r.kind = "Ok" THEN "ok" ELSE "err"] : r \in R}
    IN  CASE operation = "Compress" ->
                 Tally(IF is_dir(f, file)
                       THEN compress_directory(f, file, level, force, output_dir)
                       ELSE {compress_file(f, file, level, force, output_dir)})
          [] operation = "Decompress" ->
                 IF ~ExtensionIsZst(file) THEN {[fs |-> f, tag |-> "err"]}
                 ELSE Tally({decompress_file(f, file, force, output_dir, TRUE)})
          [] OTHER ->
                 IF ~ExtensionIsZst(file) THEN {[fs |-> f, tag |-> "skip"]}
                 ELSE Tally({verify_zst(f, file, TRUE)})

\* the counts the summary line of the TaskResult states, in its order
SummaryCounts(w) ==
    IF w.operation = "Verify"
    THEN (IF w.error_count = 0 /\ w.skipped_count = 0 THEN <<w.success_count>>
          ELSE IF w.error_count = 0 THEN <<w.success_count, w.skipped_count>>
          ELSE <<w.success_count, w.error_count, w.skipped_count>>)
    ELSE (IF w.error_count = 0 THEN <<w.success_count>>
          ELSE <<w.success_count, w.error_count>>)

\* TaskResult { success, message, details }
TaskResultOf(w) ==
    [type |-> "Result", success |-> w.error_count = 0, counts |-> SummaryCounts(w),
     details |-> w.details]

\* the progress of an item reported as if the item were already done
ProgressOfNext(idx, total) == [type |-> "Progress", idx |-> idx + 1, total |-> total]

\* TaskMessage::Progress(idx as f32 / total_files as f32)
ProgressOf(idx, total) == [type |-> "Progress", idx |-> idx, total |-> total]

Send(msg) ==
    /\ chan' = Append(chan, msg)
    /\ hist' = [hist EXCEPT !.sent = Append(@, msg)]

\* a Process button that stays enabled while a batch runs
ProcessEnabledAlways(a) == TRUE

\* the Process button is enabled: !self.is_processing (and a selection that
\* is not empty, which ProcessFiles chooses)
ProcessEnabled(a) == ~a.is_processing

\* the batch started with the cancel flag left as the last batch left it
ProcessFilesKeepingFlag ==
    /\ cli.pc = "idle"
    /\ ProcessEnabled(app)
    /\ app.runs < MaxRuns
    /\ \E files \in BatchLists, operation \in Operations, force \in BOOLEAN :
        /\ app' = [app EXCEPT !.selected_files = files, !.operation = operation,
                              !.force_overwrite = force, !.is_processing = TRUE,
                              !.has_receiver = TRUE, !.progress = <<0, 1>>, !.runs = @ + 1]
        /\ worker' = [WorkerIdle EXCEPT !.pc = "check", !.files = files,
                                        !.operation = operation, !.force = force,
                                        !.level = app.compression_level,
                                        !.output_dir = app.output_directory]
    /\ chan' = <<>>
    /\ cancel_flag' = cancel_flag
    /\ hist' = [HistInit EXCEPT !.written = fs, !.stale = (cancel_flag # 0),
                             !.overlap = (worker.pc \notin {"idle", "done"})]
    /\ UNCHANGED <<fs, call, pre, cli>>

\* the Process button: CompressorApp::process_files on the selection, the
\* operation and the force flag the user has set
ProcessFiles ==
    /\ cli.pc = "idle"
    /\ ProcessEnabled(app)
    /\ app.runs < MaxRuns
    /\ \E files \in BatchLists, operation \in Operations, force \in BOOLEAN :
        /\ app' = [app EXCEPT !.selected_files = files, !.operation = operation,
                              !.force_overwrite = force, !.is_processing = TRUE,
                              !.has_receiver = TRUE, !.progress = <<0, 1>>, !.runs = @ + 1]
        /\ worker' = [WorkerIdle EXCEPT !.pc = "check", !.files = files,
                                        !.operation = operation, !.force = force,
                                        !.level = app.compression_level,
                                        !.output_dir = app.output_directory]
    /\ chan' = <<>>
    /\ cancel_flag' = 0
    /\ hist' = [HistInit EXCEPT !.written = fs, !.stale = (cancel_flag # 0),
                             !.overlap = (worker.pc \notin {"idle", "done"})]
    /\ UNCHANGED <<fs, call, pre, cli>>

\* the destination row: the folder picker returns an existing directory, the
\* X button clears the choice; the picker is disabled while a batch runs
ChooseDestination ==
    /\ cli.pc = "idle"
    /\ ~app.is_processing
    /\ app.runs < MaxRuns
    /\ \E dir \in {NoPath, SomePath(<<N_O>>)} :
        /\ dir # app.output_directory
        /\ app' = [app EXCEPT !.output_directory = dir]
    /\ UNCHANGED <<fs, call, pre, cancel_flag, chan, worker, hist, cli>>

\* the Cancel button: CompressorApp::cancel_operation
CancelOperation ==
    /\ app.is_processing
    /\ cancel_flag' = 1
    /\ hist' = IF hist.cancelled THEN hist
               ELSE [hist EXCEPT !.cancelled = TRUE, !.cancel_completed = worker.idx,
                                 !.cancel_started =
                                     worker.idx + (IF worker.pc = "item" THEN 1 ELSE 0)]
    /\ UNCHANGED <<fs, call, pre, app, chan, worker, cli>>

\* a check that takes only a flag above 1 for a cancel request
CancelRequestedAboveOne(flag) == flag > 1

\* ctx.cancel_flag.load(Ordering::Relaxed) != 0
CancelRequested(flag) == flag # 0

\* the head of a loop that loads the cancel flag before it tests for the end
\* of the list
WorkerCheckFlagFirst ==
    /\ worker.pc = "check"
    /\ IF CancelRequested(cancel_flag)
       THEN /\ worker' = [worker EXCEPT !.pc = "finish",
                                        !.details = Append(@, "cancelled")]
            /\ UNCHANGED <<chan, hist>>
       ELSE IF worker.idx = Len(worker.files)
       THEN /\ worker' = [worker EXCEPT !.pc = "finish"]
            /\ UNCHANGED <<chan, hist>>
       ELSE /\ worker' = [worker EXCEPT !.pc = "item"]
            /\ Send(ProgressOf(worker.idx, Len(worker.files)))
    /\ UNCHANGED <<fs, call, pre, app, cancel_flag, cli>>

\* the head of the loop: the end of the list, or the load of the cancel flag,
\* then the Progress message of the item
WorkerCheck ==
    /\ worker.pc = "check"
    /\ IF worker.idx = Len(worker.files)
       THEN /\ worker' = [worker EXCEPT !.pc = "finish"]
            /\ UNCHANGED <<chan, hist>>
       ELSE IF CancelRequested(cancel_flag)
       THEN /\ worker' = [worker EXCEPT !.pc = "finish",
                                        !.details = Append(@, "cancelled")]
            /\ UNCHANGED <<chan, hist>>
       ELSE /\ worker' = [worker EXCEPT !.pc = "item"]
            /\ Send(ProgressOf(worker.idx, Len(worker.files)))
    /\ UNCHANGED <<fs, call, pre, app, cancel_flag, cli>>

\* a tally that loses the failing items
TalliedWithoutErrors(w, tag) ==
    [w EXCEPT !.pc = "check", !.idx = @ + 1,
              !.success_count = @ + (IF tag = "ok" THEN 1 ELSE 0),
              !.skipped_count = @ + (IF tag = "skip" THEN 1 ELSE 0),
              !.details = Append(@, tag)]

\* the match arms of the loop body: one counter and one details line per item
Tallied(w, tag) ==
    [w EXCEPT !.pc = "check", !.idx = @ + 1,
              !.success_count = @ + (IF tag = "ok" THEN 1 ELSE 0),
              !.error_count = @ + (IF tag = "err" THEN 1 ELSE 0),
              !.skipped_count = @ + (IF tag = "skip" THEN 1 ELSE 0),
              !.details = Append(@, tag)]

\* the body of the loop: the engine call on the item and its tally
WorkerItem ==
    /\ worker.pc = "item"
    /\ \E o \in ItemOutcomes(fs, worker.operation, worker.files[worker.idx + 1],
                             worker.level, worker.force, worker.output_dir) :
        /\ fs' = o.fs
        /\ worker' = Tallied(worker, o.tag)
        /\ hist' = [hist EXCEPT !.written = o.fs]
    /\ UNCHANGED <<call, pre, app, cancel_flag, chan, cli>>

\* the thread ending without its Result message
WorkerFinishSilent ==
    /\ worker.pc = "finish"
    /\ worker' = [worker EXCEPT !.pc = "done"]
    /\ UNCHANGED <<fs, call, pre, app, cancel_flag, chan, hist, cli>>

\* after the loop: tx.send(TaskMessage::Result(result)), the thread ends
WorkerFinish ==
    /\ worker.pc = "finish"
    /\ worker' = [worker EXCEPT !.pc = "done"]
    /\ Send(TaskResultOf(worker))
    /\ UNCHANGED <<fs, call, pre, app, cancel_flag, cli>>

\* what `while let Ok(msg) = rx.try_recv()` makes of the app, message by message
RECURSIVE Receive(_, _)
Receive(a, msgs) ==
    IF msgs = <<>> THEN a
    ELSE LET m == Head(msgs)
         IN  Receive(IF m.type = "Progress"
                     THEN [a EXCEPT !.progress = <<m.idx, m.total>>]
                     ELSE [a EXCEPT !.is_processing = FALSE, !.progress = <<1, 1>>,
                                    !.last_details = m.details, !.has_receiver = FALSE],
                     Tail(msgs))

\* one frame of CompressorApp::update: drain the channel
Update ==
    /\ app.has_receiver
    /\ chan # <<>>
    /\ app' = Receive(app, chan)
    /\ chan' = <<>>
    /\ hist' = [hist EXCEPT !.received = @ \o chan]
    /\ UNCHANGED <<fs, call, pre, cancel_flag, worker, cli>>

\* ---------------------------------------------------- the CLI batch command

\* most files the pattern of batch_compress matches
MaxGlob == 3

\* what glob(pattern) filtered by is_file can yield: regular files, each once
GlobLists(f) ==
    {l \in UNION {[1..n -> RootFiles(f)] : n \in 0..MaxGlob} :
        \A i, j \in 1..Len(l) : i # j => l[i] # l[j]}

\* batch_compress up to its loop: the file list; no file is an error
BatchCompress ==
    /\ cli.pc = "idle"
    /\ app.runs = 0
    /\ \E files \in GlobLists(fs), parallel \in BOOLEAN, force \in BOOLEAN :
        cli' = IF files = <<>> THEN [CliIdle EXCEPT !.pc = "done", !.ret = "NotFound"]
               ELSE [CliIdle EXCEPT !.pc = "run", !.files = files, !.parallel = parallel,
                                    !.force = force,
                                    !.item = [i \in 1..Len(files) |-> "todo"],
                                    !.attempts = [i \in 1..Len(files) |-> 0]]
    /\ UNCHANGED <<fs, call, pre, app, cancel_flag, chan, worker, hist>>

\* a rayon worker of the parallel mode enters compress_file_simple on a
\* pending item: the checks on the input and on the output path, then
\* File::create(&output_path), which empties the output file; a failing check
\* ends the call
BatchItemOpen ==
    /\ cli.pc = "run"
    /\ cli.parallel
    /\ \E i \in 1..Len(cli.files) :
        /\ cli.item[i] = "todo"
        /\ LET r == compress_file_simple(fs, cli.files[i], 3, cli.force)
           IN  IF r.kind = "Ok"
               THEN /\ fs' = Put(fs, build_output_path(cli.files[i]), FileNode(<<>>))
                    /\ cli' = [cli EXCEPT !.item[i] = "open", !.attempts[i] = @ + 1]
               ELSE /\ fs' = r.fs
                    /\ cli' = [cli EXCEPT !.item[i] = "err", !.attempts[i] = @ + 1]
    /\ UNCHANGED <<call, pre, app, cancel_flag, chan, worker, hist>>

\* one item's compress_file_simple. Sequential mode: the whole call, in list
\* order. Parallel mode: the read loop and the finish of a call that has
\* created its output; it compresses what the input holds by then (its own
\* checks were passed when it entered, so the output is overwritten)
BatchItemCompress ==
    /\ cli.pc = "run"
    /\ \E i \in 1..Len(cli.files) :
        /\ IF cli.parallel THEN cli.item[i] = "open"
           ELSE cli.item[i] = "todo" /\ \A j \in 1..(i - 1) : cli.item[j] = "counted"
        /\ LET r == compress_file_simple(fs, cli.files[i], 3, cli.parallel \/ cli.force)
           IN  /\ fs' = r.fs
               /\ cli' = [cli EXCEPT !.item[i] = IF r.kind = "Ok" THEN "ok" ELSE "err",
                                     !.attempts[i] = IF cli.parallel THEN @ ELSE @ + 1]
    /\ UNCHANGED <<call, pre, app, cancel_flag, chan, worker, hist>>

\* the item's match arm: fetch_add(1) on success_count or on error_count
BatchItemCount ==
    /\ cli.pc = "run"
    /\ \E i \in 1..Len(cli.files) :
        /\ cli.item[i] \in {"ok", "err"}
        /\ cli' = [cli EXCEPT
               !.item[i] = "counted",
               !.success_count = @ + (IF cli.item[i] = "ok" THEN 1 ELSE 0),
               !.error_count = @ + (IF cli.item[i] = "err" THEN 1 ELSE 0)]
    /\ UNCHANGED <<fs, call, pre, app, cancel_flag, chan, worker, hist>>

\* after the loop: the counters are printed, Ok(()) is returned
BatchFinish ==
    /\ cli.pc = "run"
    /\ \A i \in 1..Len(cli.files) : cli.item[i] = "counted"
    /\ cli' = [cli EXCEPT !.pc = "done", !.ret = "Ok"]
    /\ UNCHANGED <<fs, call, pre, app, cancel_flag, chan, worker, hist>>

\* a session of the GUI binary with the default destination (the folder of
\* each input) or one batch command of the CLI binary
NextBatch ==
    \/ ProcessFiles
    \/ CancelOperation
    \/ WorkerCheck
    \/ WorkerItem
    \/ WorkerFinish
    \/ Update
    \/ BatchCompress
    \/ BatchItemOpen
    \/ BatchItemCompress
    \/ BatchItemCount
    \/ BatchFinish

\* a.txt, its intact container a.txt.zst, the archive t.tar.zst, directory d
InitBatch ==
    /\ fs = InitFs(N_A_TXT, <<0>>, TRUE, 1)
    /\ call = NoCall
    /\ pre = fs
    /\ BatchIdle

SpecBatch == InitBatch /\ [][NextBatch]_vars

\* the GUI alone, the choice of a destination directory included
NextGui ==
    \/ ProcessFiles
    \/ ChooseDestination
    \/ CancelOperation
    \/ WorkerCheck
    \/ WorkerItem
    \/ WorkerFinish
    \/ Update

\* the application with one batch left to start below the bound on batches,
\* the cancel flag as an earlier batch may have left it
InitLive ==
    /\ fs = InitFs(N_A_TXT, <<0>>, TRUE, 1)
    /\ call = NoCall
    /\ pre = fs
    /\ app = [AppDefault EXCEPT !.runs = MaxRuns - 1]
    /\ cancel_flag \in {0, 1}
    /\ chan = <<>>
    /\ worker = WorkerIdle
    /\ hist = HistInit
    /\ cli = CliIdle

\* each engine call returns. WorkerItem is enabled exactly where worker.pc is
\* "item" and each of its steps leaves that position, so this is the weak
\* fairness of WorkerItem
EngineCallReturns == []<>(worker.pc # "item")

\* the worker thread is scheduled and each engine call returns; update runs
\* again while a batch is processed (ctx.request_repaint())
SpecBatchLive ==
    /\ InitLive
    /\ [][NextGui]_vars
    /\ WF_vars(WorkerCheck)
    /\ EngineCallReturns
    /\ WF_vars(WorkerFinish)
    /\ WF_vars(Update)

\* ------------------------------------------------------------ the claims

\* C1: compressing a regular file (any name, any content, any level) and
\* decompressing the container gives back a file with the source's content.
RoundTripRestores ==
    call.op = "roundtrip" =>
        /\ call.kind = "Ok"
        /\ is_file(fs, call.input)
        /\ fs[call.input].data = call.data

\* C2: for compress_file, compress_directory, compress_multiple_files,
\* single-file decompression and archive extraction (output existing as a
\* directory): when the resolved output path exists and force is false, the
\* call returns AlreadyExists and leaves the filesystem as it was.
ExistingOutputRefused ==
    LET c == call
        Resolve(name, dflt) ==
            IF c.out.some
            THEN (IF is_dir(pre, c.out.path) THEN Join(c.out.path, name) ELSE c.out.path)
            ELSE dflt
        dirName == FileName(c.input) \o <<DOT, "tar", DOT, "zst">>
        plain == WithExtension(c.input, <<>>)
        output ==
            CASE c.op = "compress_file" ->
                     Resolve(FileName(c.input) \o <<DOT, "zst">>, build_output_path(c.input))
              [] c.op = "compress_directory" -> Resolve(dirName, Join(Parent(c.input), dirName))
              [] c.op = "compress_multiple_files" -> c.input
              [] c.route = "single" -> Resolve(FileName(plain), plain)
              [] OTHER -> IF c.out.some THEN c.out.path
                          ELSE Join(Parent(c.input), FileStem(FileStem(FileName(c.input))))
        resolved ==
            CASE c.op = "compress_file" -> exists(pre, c.input)
              [] c.op = "compress_directory" -> is_dir(pre, c.input)
              [] c.op = "compress_multiple_files" ->
                     \A i \in 1..Len(c.inputs) : exists(pre, c.inputs[i])
              [] c.op \in {"decompress_file", "cli_decompress"} ->
                     \/ c.route = "single"
                     \/ c.route = "tar" /\ is_dir(pre, output)
              [] OTHER -> FALSE
    IN  (resolved /\ exists(pre, output) /\ ~c.force) =>
            (c.kind = "AlreadyExists" /\ fs = pre)

ExistingOutputRefusedSeen ==
    /\ call.op = "decompress_file"
    /\ call.route = "tar"
    /\ ~call.force
    /\ call.out.some
    /\ is_dir(pre, call.out.path)
    /\ call.kind = "AlreadyExists"

\* C3: compress_file never changes its source: whatever the output_path
\* option and the force flag, the source exists afterwards with the content
\* it had.
SourceNeverMutated ==
    (call.op = "compress_file" /\ exists(pre, call.input)) =>
        (exists(fs, call.input) /\ fs[call.input] = pre[call.input])

\* C4: decompress_file on an existing path takes exactly one of three ways,
\* decided by the file name alone: a name that does not end in ".zst" is
\* refused with InvalidInput, a name ending in ".tar.zst" goes to archive
\* extraction, every other ".zst" name to single-file decompression.
DispatchByName ==
    (call.op = "decompress_file" /\ exists(pre, call.input)) =>
        LET n == FileName(call.input)
            k == Len(n)
            zst == k >= 3 /\ n[k] = "zst" /\ n[k - 1] = DOT
            tar == k >= 4 /\ SubSeq(n, k - 3, k) = <<DOT, "tar", DOT, "zst">>
        IN  /\ call.route \in {"reject", "tar", "single"}
            /\ call.route = "reject" <=> ~zst
            /\ call.route = "tar" <=> tar
            /\ call.route = "single" <=> (zst /\ ~tar)
            /\ call.route = "reject" => (call.kind = "InvalidInput" /\ fs = pre)

DispatchByNameSeen ==
    /\ call.op = "decompress_file"
    /\ call.route = "tar"
    /\ call.kind = "Ok"

\* C5: decompress_file, verify_zst and the CLI's decompress command refuse a
\* path whose extension is not zst with InvalidInput before any filesystem
\* access, whether or not the path exists.
RejectedBeforeAnyAccess ==
    (/\ call.op \in {"decompress_file", "verify_zst", "cli_decompress"}
     /\ ~ExtensionIsZst(call.input)) =>
        (call.kind = "InvalidInput" /\ call.io = 0 /\ fs = pre)

\* C6: verify_zst answers InvalidData whenever the decoder cannot be set up
\* or the stream fails to decode (a container cut short included), answers Ok
\* only when the whole stream decoded, with the container's size and the size
\* of the decoded data, and writes nothing.
VerifyReportsCorruption ==
    (call.op = "verify_zst" /\ exists(pre, call.input) /\ ExtensionIsZst(call.input)) =>
        LET data == pre[call.input].data
            dec == Decode(data)
        IN  /\ fs = pre
            /\ (~call.init_ok \/ dec.err # "none") => call.kind = "InvalidData"
            /\ (\E c \in Contents, l \in Levels : data = Front(Encode(c, l)))
                   => call.kind = "InvalidData"
            /\ call.kind \in {"Ok", "InvalidData"}
            /\ call.kind = "Ok" =>
                   /\ call.init_ok
                   /\ dec.err = "none"
                   /\ dec.next = Len(data) + 1
                   /\ call.input_size = Len(data)
                   /\ call.output_size = Len(dec.out)

VerifyReportsCorruptionSeen ==
    /\ call.op = "verify_zst"
    /\ call.init_ok
    /\ exists(pre, call.input)
    /\ \E c \in Contents : pre[call.input].data = Front(Encode(c, 21))
    /\ call.kind = "InvalidData"

\* C7: decompression, single-file or archive, returns a failure to set up
\* the decoder or to decode the stream as InvalidData.
DecodeFailureIsInvalidData ==
    (/\ call.op \in {"decompress_file", "cli_decompress"}
     /\ call.route \in {"single", "tar"}
     /\ ~call.init_ok \/ Decode(pre[call.input].data).err # "none"
     /\ call.kind \notin {"AlreadyExists", "NotFound", "InvalidInput", "IsADirectory",
                          "NotADirectory"}) =>
        call.kind = "InvalidData"

\* C8: the values one call passes to its progress sink never decrease, the
\* completion callback included, for each of the six engine operations.
ProgressMonotonic ==
    \A i \in 1..(Len(call.log) - 1) : call.log[i] <= call.log[i + 1]

ProgressMonotonicSeen ==
    /\ call.op = "verify_zst"
    /\ call.kind = "Ok"
    /\ Len(call.log) >= 3
    /\ call.log[1] < call.log[2]
    /\ call.log[2] < call.log[3]

\* C9 as stated: after every successful decompression, of either container
\* shape, and every successful verification the last value passed to the
\* sink is the size of the compressed input.
LastProgressIsInputSize ==
    (/\ call.op \in {"decompress_file", "cli_decompress", "verify_zst"}
     /\ call.kind = "Ok"
     /\ call.route \in {"single", "tar", "verify"}) =>
        (call.log # <<>> /\ Last(call.log) = Len(pre[call.input].data))

\* C9: after a successful single-file decompression or verification the last
\* value passed to the sink is the size of the compressed input; after a
\* successful archive extraction the sink received the running count of the
\* entries extracted, the last value being their number.
LastProgressValue ==
    (call.op \in {"decompress_file", "cli_decompress", "verify_zst"} /\ call.kind = "Ok") =>
    /\ call.route \in {"single", "verify"} =>
           (call.log # <<>> /\ Last(call.log) = Len(pre[call.input].data))
    /\ call.route = "tar" =>
           LET dec == Decode(pre[call.input].data)
               n == Len(TarEntries(dec.out, dec.err, 1, <<>>).entries)
           IN  call.log = [i \in 1..n |-> i]

LastProgressValueSeen ==
    /\ call.op = "decompress_file"
    /\ call.route = "single"
    /\ call.kind = "Ok"
    /\ call.log = <<Len(pre[call.input].data)>>
    /\ call.output_size # Len(pre[call.input].data)

\* C10: in decompress_single_file and verify_zst a callback before the
\* completion callback is issued only when at least 1 MiB of output has
\* accumulated since the previous one, its value is
\* min(floor(total_written / 3), input_size), and so it never exceeds the
\* input size.
ThrottledEstimate ==
    (call.op \in {"decompress_single_file", "verify_zst"}) =>
        LET est == IF call.kind = "Ok" THEN Front(call.log) ELSE call.log
            m == Len(est)
            written(k) == SumSeq(SubSeq(call.reads, 1, k))
            floorThird(k) == written(k) \div 3
        IN  /\ \A j \in 1..m : est[j] <= call.input_size
            /\ \E at \in {S \in SUBSET (1..Len(call.reads)) : Cardinality(S) = m} :
                   LET nth(j) == CHOOSE k \in at : Cardinality({i \in at : i < k}) = j - 1
                   IN  \A j \in 1..m :
                           /\ est[j] = IF floorThird(nth(j)) < call.input_size
                                       THEN floorThird(nth(j)) ELSE call.input_size
                           /\ written(nth(j)) - (IF j = 1 THEN 0 ELSE written(nth(j - 1)))
                                  >= 1048576

ThrottledEstimateSeen ==
    /\ call.op = "decompress_single_file"
    /\ call.kind = "Ok"
    /\ Len(call.log) = 3
    /\ call.log[1] < call.input_size
    /\ call.log[2] = call.input_size
    /\ SumSeq(call.reads) \div 3 > call.input_size

CancelReportStatesRemainder ==
    (worker.pc = "done" /\ worker.details # <<>> /\ Last(worker.details) = "cancelled") =>
        LET report == Last(hist.sent)
            remaining == Len(worker.files) - worker.idx
        IN  /\ \E i \in 1..Len(report.counts) : report.counts[i] = remaining
            /\ fs = hist.written

\* C14: in every GUI batch the worker sends Progress messages, then exactly
\* one Result message and nothing after it; the GUI thread receives the
\* messages sent, none lost, in the order they were sent, and a received
\* Result ends the batch.
ChannelProtocol ==
    LET sent == hist.sent
        n == Len(sent)
    IN  /\ \A i \in 1..(n - 1) : sent[i].type = "Progress"
        /\ \A i \in 1..n : sent[i].type = "Result" => worker.pc = "done"
        /\ \A i, j \in 1..n :
               (i < j /\ sent[j].type = "Progress") => sent[i].idx < sent[j].idx
        /\ worker.pc = "done" => (n >= 1 /\ sent[n].type = "Result")
        /\ app.has_receiver => hist.received \o chan = sent
        /\ ~app.has_receiver => (chan = <<>> /\ hist.received = sent)
        /\ (app.runs > 0 /\ ~app.is_processing) =>
               (hist.received # <<>> /\ Last(hist.received).type = "Result")

ChannelProtocolSeen ==
    /\ worker.pc = "done"
    /\ ~app.is_processing
    /\ Len(hist.sent) = 3
    /\ hist.received = hist.sent
    /\ app.runs = 2

\* C13 as stated: in every batch loop success_count + error_count is the
\* number of items attempted, every item of an uncancelled batch being
\* attempted once.
TwoCountersCoverAttempts ==
    /\ worker.pc \in {"check", "finish", "done"} =>
           worker.success_count + worker.error_count = worker.idx
    /\ (cli.pc = "done" /\ cli.ret = "Ok") =>
           cli.success_count + cli.error_count = Len(cli.files)

\* C13: a failing item is tallied and the loop goes on. In the CLI batch,
\* sequential or parallel, each file is attempted exactly once, the two
\* counters add up to the number of files and the command returns Ok. In the
\* GUI loops every item handled adds one details line and one count:
\* success or error in compress_files and decompress_files (a non-zst item
\* is an error there), valid, invalid or skipped in verify_files, where a
\* non-zst item is skipped and counts neither as valid nor as invalid. An
\* uncancelled batch handles every item and always ends with a TaskResult.
PartialFailureTallies ==
    LET n == Len(worker.files)
        tags == SelectSeq(worker.details, LAMBDA t : t # "cancelled")
        Count(t) == Len(SelectSeq(worker.details, LAMBDA u : u = t))
    IN  /\ worker.pc \in {"check", "finish", "done"} =>
               /\ worker.success_count + worker.error_count + worker.skipped_count
                      = worker.idx
               /\ Len(tags) = worker.idx
               /\ worker.success_count = Count("ok")
               /\ worker.error_count = Count("err")
               /\ worker.skipped_count = Count("skip")
               /\ worker.operation # "Verify" => worker.skipped_count = 0
               /\ worker.operation = "Verify" =>
                      worker.skipped_count =
                          Cardinality({i \in 1..worker.idx : ~ExtensionIsZst(worker.files[i])})
        /\ (worker.pc \in {"finish", "done"} /\ Count("cancelled") = 0) => worker.idx = n
        /\ worker.pc = "done" => Last(hist.sent) = TaskResultOf(worker)
        /\ cli.pc = "run" =>
               /\ cli.success_count + cli.error_count
                      = Cardinality({i \in 1..Len(cli.files) : cli.item[i] = "counted"})
               /\ \A i \in 1..Len(cli.files) :
                      cli.attempts[i] = IF cli.item[i] = "todo" THEN 0 ELSE 1
        /\ (cli.pc = "done" /\ cli.files # <<>>) =>
               /\ cli.ret = "Ok"
               /\ cli.success_count + cli.error_count = Len(cli.files)
               /\ \A i \in 1..Len(cli.files) : cli.attempts[i] = 1

PartialFailureTalliesSeen ==
    /\ cli.pc = "done"
    /\ cli.parallel
    /\ Len(cli.files) = 3
    /\ cli.error_count = 1
    /\ cli.success_count = 2

\* C15: whatever the names of an archive's entries (absolute ones and ones
\* with ".." components included), every file or directory that archive
\* extraction creates or writes lies under the resolved output directory.
ExtractionConfined ==
    (call.op \in {"decompress_file", "cli_decompress"} /\ call.route = "tar") =>
        LET output_dir ==
                IF call.out.some THEN call.out.path
                ELSE Join(Parent(call.input), FileStem(FileStem(FileName(call.input))))
            k == Len(output_dir)
            touched == {p \in DOMAIN fs : p \notin DOMAIN pre \/ fs[p] # pre[p]}
        IN  \A p \in touched : Len(p) >= k /\ SubSeq(p, 1, k) = output_dir

\* C16: for every directory tree D, compress_directory(D) followed by
\* decompress_file on the resulting archive into a fresh output directory
\* succeeds and leaves under the output directory exactly the regular files of
\* D, at the same relative paths with the same contents.
DirRoundTripReproduces ==
    call.op = "dir_roundtrip" =>
        /\ call.kind = "Ok"
        /\ RelativeFiles(fs, call.out.path) = RelativeFiles(pre, call.input)

\* the same for the trees whose directory path has a final name, so that the
\* archive is written beside the tree
NamedDirRoundTripReproduces ==
    (call.op = "dir_roundtrip" /\ call.input # Root) =>
        /\ call.kind = "Ok"
        /\ RelativeFiles(fs, call.out.path) = RelativeFiles(pre, call.input)

\* C17: when any file of the list given to compress_multiple_files does not
\* exist, whatever its position and whatever force, the call returns NotFound
\* and the output path is as before the call: not created when it was absent,
\* its content untouched when it was there.
MissingInputLeavesOutput ==
    (/\ call.op = "compress_multiple_files"
     /\ \E i \in 1..Len(call.inputs) : ~exists(pre, call.inputs[i])) =>
        /\ call.kind = "NotFound"
        /\ exists(fs, call.out.path) <=> exists(pre, call.out.path)
        /\ exists(pre, call.out.path) => fs[call.out.path] = pre[call.out.path]

MissingInputLeavesOutputSeen ==
    /\ call.op = "compress_multiple_files"
    /\ Len(call.inputs) = 2
    /\ ~exists(pre, call.inputs[1])
    /\ exists(pre, call.inputs[2])
    /\ call.force
    /\ exists(pre, call.out.path)
    /\ pre[call.out.path].data # <<>>
    /\ call.kind = "NotFound"
    /\ fs = pre

\* C18: every CompressOptions value that reaches an engine operation carries
\* a level validated to lie in 1..=21.
LevelValidated ==
    call.op \in {"compress_file", "compress_file_simple", "cli_compress",
                 "compress_directory", "compress_multiple_files", "roundtrip"} =>
        (1 <= call.level /\ call.level <= 21)

\* the levels that come through the command line's parse_level are in range
CliLevelValidated ==
    /\ call.op = "cli_compress" => (1 <= call.level /\ call.level <= 21)
    /\ call.op = "cli_rejected" => fs = pre

\* C19: optimal_buffer_size(size) is 1 MiB when size >= 10 MiB and 256 KiB
\* otherwise: 10 MiB - 1 gives the small buffer, 10 MiB the large one; the
\* function never decreases as the size grows and changes value at 10 MiB only.
BufferSizePolicy ==
    call.op = "optimal_buffer_size" =>
        /\ call.buffer_size = IF call.file_size >= 10 * 1024 * 1024
                              THEN 1024 * 1024 ELSE 256 * 1024
        /\ call.file_size = 10 * 1024 * 1024 - 1 => call.buffer_size = BUFFER_SIZE_SMALL
        /\ call.file_size = 10 * 1024 * 1024 => call.buffer_size = BUFFER_SIZE_LARGE
        /\ \A t \in PolicySizes :
               t <= call.file_size => optimal_buffer_size(t) <= call.buffer_size
        /\ (call.file_size > 0 /\ optimal_buffer_size(call.file_size - 1) # call.buffer_size)
               => call.file_size = 10 * 1024 * 1024

BufferSizePolicySeen ==
    /\ call.op = "optimal_buffer_size"
    /\ call.file_size = LARGE_FILE_THRESHOLD
    /\ call.buffer_size = BUFFER_SIZE_LARGE
    /\ optimal_buffer_size(call.file_size - 1) = BUFFER_SIZE_SMALL

\* C20: should_use_parallel(size) is parallel OR (auto_parallel AND size >=
\* 1 MiB); CompressOptions::new sets auto_parallel and leaves parallel unset,
\* so the default decision is false at 1 MiB - 1 and true at 1 MiB; with
\* parallel set the decision is true for every size.
ParallelDecision ==
    call.op = "should_use_parallel" =>
        LET o == call.options
            unset == [parallel |-> "unset", auto_parallel |-> "unset"]
        IN  /\ call.use_parallel =
                   (o.parallel \/ (o.auto_parallel /\ call.file_size >= 1024 * 1024))
            /\ call.builder = unset =>
                   /\ o.auto_parallel /\ ~o.parallel
                   /\ call.file_size = 1024 * 1024 - 1 => ~call.use_parallel
                   /\ call.file_size = 1024 * 1024 => call.use_parallel
            /\ call.builder.parallel = "true" => call.use_parallel

ParallelDecisionSeen ==
    /\ call.op = "should_use_parallel"
    /\ call.builder = [parallel |-> "unset", auto_parallel |-> "unset"]
    /\ call.file_size = AUTO_PARALLEL_THRESHOLD
    /\ call.use_parallel
    /\ ~should_use_parallel(call.options.parallel, call.options.auto_parallel,
                            call.file_size - 1)

\* C21: a successful compress_file writes to the source path with ".zst"
\* appended to its name when no output_path is given, to <dir>/<source name>.zst
\* when output_path is an existing directory, and to output_path itself
\* otherwise; a successful single-file decompression without output_path
\* writes to the container's path less its trailing ".zst". Nothing else
\* changes but the parent directories created for the output.
OutputPathResolution ==
    LET n == FileName(call.input)
        touched == {p \in DOMAIN fs : p \notin DOMAIN pre \/ fs[p] # pre[p]}
    IN  /\ (call.op = "compress_file" /\ call.kind = "Ok") =>
               LET zst == n \o <<DOT, "zst">>
                   target == IF ~call.out.some THEN Join(Parent(call.input), zst)
                             ELSE IF is_dir(pre, call.out.path) THEN Join(call.out.path, zst)
                             ELSE call.out.path
               IN  /\ is_file(fs, target)
                   /\ Decode(fs[target].data).err = "none"
                   /\ \A p \in touched : p = target \/ (p \in Prefixes(target) /\ is_dir(fs, p))
        /\ (/\ call.op \in {"decompress_file", "cli_decompress"}
            /\ call.route = "single" /\ call.kind = "Ok" /\ ~call.out.some) =>
               LET target == Join(Parent(call.input), SubSeq(n, 1, Len(n) - 2))
               IN  /\ Len(n) > 2
                   /\ SubSeq(n, Len(n) - 1, Len(n)) = <<DOT, "zst">>
                   /\ is_file(fs, target)
                   /\ touched \subseteq {target}

OutputPathResolutionSeen ==
    /\ call.op = "compress_file"
    /\ call.kind = "Ok"
    /\ ~call.out.some
    /\ call.input = <<N_A_TXT>>
    /\ ~exists(pre, <<N_A_TXT \o <<DOT, "zst">>>>)
    /\ is_file(fs, <<N_A_TXT \o <<DOT, "zst">>>>)

\* C22: whatever its input and its outcome (success, corruption, NotFound,
\* InvalidInput), verify_zst leaves every file and directory as it was.
VerifyPersistsNothing ==
    call.op = "verify_zst" => fs = pre

VerifyPersistsNothingSeen ==
    /\ call.op = "verify_zst"
    /\ call.kind = "Ok"
    /\ call.output_size > 0
    /\ fs = pre

CompressProgressPerRead ==
    call.op = "compress_file" =>
        /\ Len(call.log) = Len(call.reads)
        /\ \A i \in 1..Len(call.log) :
               call.reads[i] > 0 /\ call.log[i] = SumSeq(SubSeq(call.reads, 1, i))
        /\ call.input_size > 0 => (call.log # <<>> /\ Last(call.log) = call.input_size)
        /\ call.input_size = 0 => call.log = <<>>

DirProgressTotal ==
    (call.op = "compress_directory" /\ call.kind = "Ok") =>
        /\ Len(call.log) = Cardinality(FilesUnder(fs, call.input))
        /\ call.log # <<>> => Last(call.log) = call.input_size
        /\ call.log = <<>> => call.input_size = 0

\* the same when the resolved output lies outside the directory; the values
\* never decrease
DirProgressTotalOutside ==
    (/\ call.op = "compress_directory"
     /\ call.kind = "Ok"
     /\ LET name == FileName(call.input) \o <<DOT, "tar", DOT, "zst">>
            output == ResolveOutput(pre, call.out, name, Join(Parent(call.input), name))
            k == Len(call.input)
        IN  ~(Len(output) > k /\ SubSeq(output, 1, k) = call.input)) =>
        /\ Len(call.log) = Cardinality(FilesUnder(pre, call.input))
        /\ \A i \in 1..(Len(call.log) - 1) : call.log[i] <= call.log[i + 1]
        /\ call.log # <<>> => Last(call.log) = call.input_size
        /\ call.log = <<>> => call.input_size = 0

DirProgressTotalOutsideSeen ==
    /\ call.op = "compress_directory"
    /\ call.kind = "Ok"
    /\ call.out = SomePath(<<N_O>>)
    /\ call.log = <<1, 2>>
    /\ call.input_size = 2

\* C25: the cancel flag is 0 when a batch starts, so its worker sees a
\* nonzero flag, and skips items, only after a cancel request made during
\* this very batch; a request left over from an earlier batch skips nothing.
CancelOnlyFromOwnBatch ==
    /\ (worker.pc \in {"check", "item", "finish"} /\ cancel_flag # 0) => hist.cancelled
    /\ (\E i \in 1..Len(worker.details) : worker.details[i] = "cancelled") => hist.cancelled

CancelOnlyFromOwnBatchSeen ==
    /\ hist.stale
    /\ ~hist.cancelled
    /\ worker.pc = "done"
    /\ Len(worker.files) = 2
    /\ worker.idx = 2

\* C26: the flag is read only at the head of an item. A cancel request that
\* arrives once the last item of the batch has started (or later) changes
\* nothing: every item is handled and tallied and the report carries no
\* cancellation line. An item that had started when the request came is
\* always completed.
CancelDuringLastItemIgnored ==
    /\ (/\ worker.pc \in {"finish", "done"}
        /\ hist.cancelled
        /\ hist.cancel_started = Len(worker.files)) =>
           /\ worker.idx = Len(worker.files)
           /\ Len(worker.details) = Len(worker.files)
           /\ \A i \in 1..Len(worker.details) : worker.details[i] # "cancelled"
           /\ worker.success_count + worker.error_count + worker.skipped_count
                  = Len(worker.files)
    /\ (worker.pc \in {"finish", "done"} /\ hist.cancelled) =>
           worker.idx >= hist.cancel_started

CancelDuringLastItemIgnoredSeen ==
    /\ worker.pc = "done"
    /\ hist.cancelled
    /\ Len(worker.files) = 2
    /\ hist.cancel_completed = 1
    /\ hist.cancel_started = 2
    /\ worker.idx = 2
    /\ cancel_flag = 1

\* C27: a worker is spawned only when none is alive; is_processing is true
\* exactly when a result receiver is installed, it is true as long as the
\* worker has not sent its Result, and it is false again only once that
\* Result, the worker's last message, has been received.
OneWorkerAtATime ==
    /\ ~hist.overlap
    /\ app.is_processing <=> app.has_receiver
    /\ worker.pc \in {"check", "item", "finish"} => app.is_processing
    /\ (~app.is_processing /\ app.runs > 0) =>
           /\ worker.pc = "done"
           /\ hist.received # <<>>
           /\ Last(hist.received).type = "Result"
           /\ hist.received = hist.sent

OneWorkerAtATimeSeen ==
    /\ app.runs = 2
    /\ app.is_processing
    /\ app.has_receiver
    /\ worker.pc = "item"
    /\ ~hist.overlap

\* C28: every batch started in the GUI finishes: is_processing becomes false
\* again with progress 1.0, whether the batch completed, failed on items or
\* was cancelled. While is_processing holds the progress shown (a fraction
\* idx/N, kept as the pair <<idx, N>>) is below 1, and within one batch it
\* never decreases.
BatchEventuallyFinishes ==
    /\ app.is_processing ~> (~app.is_processing /\ app.progress = <<1, 1>>)
    /\ [](app.is_processing => app.progress[1] < app.progress[2])
    /\ [][app.runs' = app.runs =>
              app.progress[1] * app.progress'[2] <= app.progress'[1] * app.progress[2]]_vars

\* the engine call of an item always has an outcome, so WorkerItem is enabled
\* wherever worker.pc is "item"
EngineCallHasOutcome ==
    worker.pc = "item" =>
        ItemOutcomes(fs, worker.operation, worker.files[worker.idx + 1],
                     worker.level, worker.force, worker.output_dir) # {}

BatchEventuallyFinishesSeen ==
    /\ app.runs = MaxRuns
    /\ ~app.is_processing
    /\ app.progress = <<1, 1>>
    /\ Len(app.selected_files) = 2
    /\ app.last_details = <<"err", "cancelled">>

\* C29: no data race between the items of a parallel CLI batch: whatever set
\* of files the pattern matched, two compress_file invocations that run at the
\* same time touch no common path that one of them writes: the output path of
\* each differs from the input path and from the output path of the other.
ParallelItemsShareNoPath ==
    \A i, j \in 1..Len(cli.files) :
        (i # j /\ cli.item[i] = "open" /\ cli.item[j] = "open") =>
            /\ build_output_path(cli.files[i]) # cli.files[j]
            /\ build_output_path(cli.files[i]) # build_output_path(cli.files[j])

\* what the race costs: a parallel batch has ended with every item counted
\* as a success, and the container written for x.zst is the container of an
\* empty file, which x.zst held neither before the batch nor after it
ParallelBatchTornRead ==
    /\ cli.pc = "done"
    /\ cli.parallel
    /\ cli.error_count = 0
    /\ \E i \in 1..Len(cli.files) :
           LET x == cli.files[i]
               out == build_output_path(x)
           IN  /\ fs[x].data # <<>>
               /\ fs[out].data = Encode(<<>>, 3)

\* C30: decompress_tar_zst takes a given output_path as the extraction
\* directory itself, not joined with the archive's base name. When it exists
\* and is no directory the call returns InvalidInput, with or without force;
\* when it is an existing directory and force is off the call returns
\* AlreadyExists; either way nothing is extracted. When the call succeeds the
\* entries lie under output_path and no directory named after the archive
\* appears in it.
ArchiveOutputVerbatim ==
    (/\ call.op \in {"decompress_file", "cli_decompress"}
     /\ exists(pre, call.input)
     /\ EndsWithTarZst(call.input)
     /\ call.out.some) =>
        LET dir == call.out.path
            joined == Join(dir, FileStem(FileStem(FileName(call.input))))
        IN  /\ (exists(pre, dir) /\ ~is_dir(pre, dir)) =>
                   (call.kind = "InvalidInput" /\ fs = pre)
            /\ (is_dir(pre, dir) /\ ~call.force) =>
                   (call.kind = "AlreadyExists" /\ fs = pre)
            /\ call.kind = "Ok" =>
                   /\ ~exists(fs, joined)
                   /\ call.log # <<>> =>
                          \E p \in DOMAIN fs \ DOMAIN pre :
                              Len(p) > Len(dir) /\ SubSeq(p, 1, Len(dir)) = dir

\* C30 in the GUI: a decompress batch with a chosen destination directory and
\* overwrite off fails on every .tar.zst item and extracts none, while its
\* single-file containers are written into the destination
GuiArchiveItemsFail ==
    (/\ worker.operation = "Decompress"
     /\ worker.output_dir.some
     /\ ~worker.force) =>
        /\ \A i \in 1..worker.idx :
               EndsWithTarZst(worker.files[i]) => worker.details[i] = "err"
        /\ \A p \in DOMAIN fs \ DOMAIN pre :
               /\ Parent(p) = worker.output_dir.path
               /\ \E i \in 1..Len(worker.files) :
                      /\ ~EndsWithTarZst(worker.files[i])
                      /\ ExtensionIsZst(worker.files[i])
                      /\ FileName(p) = FileStem(FileName(worker.files[i]))

ArchiveOutputVerbatimSeen ==
    /\ call.op = "decompress_file"
    /\ call.input = <<N_T_TAR_ZST>>
    /\ call.out = SomePath(<<N_O>>)
    /\ ~call.force
    /\ call.kind = "AlreadyExists"
    /\ fs = pre

GuiArchiveItemsFailSeen ==
    /\ worker.pc = "done"
    /\ worker.operation = "Decompress"
    /\ worker.output_dir = SomePath(<<N_O>>)
    /\ ~worker.force
    /\ worker.files = <<build_output_path(<<N_A_TXT>>), <<N_T_TAR_ZST>>>>
    /\ worker.details = <<"ok", "err">>
====
